---- MODULE Spec2Model ----
(***************************************************************************)
(* Model of the session store and the paginated extraction engine of       *)
(* src/src/enhanced_extract_data.py (class DataExtractor) and of           *)
(* src/src/session_manager.py (class SessionManager).                      *)
(*                                                                         *)
(* A row is a function from column names to cell texts, as the Python      *)
(* dicts returned by page.evaluate.  The page is the environment: either   *)
(* a "free" page, whose every observation (indicator text, controls, rows, *)
(* a raised Playwright error) is arbitrary, or a "data" site that serves a *)
(* fixed dataset in chunks and never raises.                               *)
(***************************************************************************)
EXTENDS Integers, Sequences, FiniteSets, TLC

VARIABLES
    site,                 \* the page under automation (environment)
    pos,                  \* data site: index of the view currently rendered
    xpc,                  \* extract_table_data: position in the function
    all_products,         \* extract_table_data: local all_products
    collected_keys,       \* extract_table_data: local collected_keys
    total_expected,       \* extract_table_data: local total_expected
    pagination_attempts,  \* extract_table_data: local pagination_attempts
    result,               \* extract_table_data: the returned list
    stopWhy,              \* history: why the pagination loop was left
    seen                  \* history: what the last step read from the page

xvars == <<site, pos, xpc, all_products, collected_keys, total_expected,
           pagination_attempts, result, stopWhy, seen>>

VARIABLES
    now,                  \* the wall clock (datetime.now), in minutes
    session_file,         \* contents of the session file
    raw_state_file,       \* DataExtractor: contents of the *_raw.json file
    prog,                 \* the program the current run executes
    spc,                  \* position of the current run
    force_login,          \* configuration: force_login
    max_age_minutes,      \* SessionManager configuration: max_age_minutes
    loaded_session_meta,  \* DataExtractor._loaded_session_meta
    loaded_tokens,        \* DataExtractor._loaded_tokens
    tokens,               \* DataExtractor._tokens
    storage_state,        \* init_browser: local storage_state
    context_storage,      \* storage state the browsing context was created with
    loaded_meta,          \* SessionManager._loaded_meta
    loaded_storage_state, \* SessionManager._loaded_storage_state
    runs,                 \* history: number of processes started so far
    persisted,            \* history: what the last completed _save_session wrote
    lastOp                \* history: what the last step of a run did to the store

svars == <<now, session_file, raw_state_file, prog, spc, force_login,
           max_age_minutes, loaded_session_meta, loaded_tokens, tokens,
           storage_state, context_storage, loaded_meta, loaded_storage_state,
           runs, persisted, lastOp>>

VARIABLES
    url,                  \* page.url of the page under automation
    view,                 \* what each login indicator answers to is_visible
    pages,                \* pages created in the browsing context
    acted,                \* which candidate filled or clicked each form element
    polls,                \* login: finished rounds of the post-submit loop
    last_call,            \* history: the last call of the validator
    valid_seen,           \* history: the validator returned True in this login
    login_err,            \* history: an error was raised inside the login sequence
    login_ret,            \* what login (ensure_session) returned
    run_ret,              \* what run (cli_main) returned
    held,                 \* browser resources that are open
    released,             \* history: resources closed, in order
    form,                 \* history: the login page the form steps met
    ran                   \* history: what run's calls after login returned

lvars == <<url, view, pages, acted, polls, last_call, valid_seen, login_err,
           login_ret, run_ret, held, released, form, ran>>

VARIABLES
    client_storage,       \* what the page's storage and globals hold
    deadline,             \* _poll_for_storage: local deadline
    loop_time,            \* the event loop's clock, in polling intervals
    captured,             \* _poll_for_storage: local captured
    candidates,           \* _extract_tokens: local candidates
    hpc                   \* position inside the poll and the harvest

hvars == <<client_storage, deadline, loop_time, captured, candidates, hpc>>

vars == <<xvars, svars, lvars, hvars>>

\* What run's calls after login returned: navigate_wizard, the list of
\* extract_table_data ("some" or "empty"), save_data_to_json, and whether the
\* final poll, harvest and save ran through or raised.
NotRun == [wizard |-> "none", products |-> "none", written |-> FALSE,
           final |-> "none"]

\* The login variables while no login is modelled.
LoginIdle ==
    /\ url = "about:blank"
    /\ view = <<>>
    /\ pages = 0
    /\ acted = [email |-> 0, password |-> 0, submit |-> 0]
    /\ polls = 0
    /\ last_call = [ret |-> FALSE, probed |-> 0, view |-> <<>>, at |-> "none"]
    /\ valid_seen = FALSE
    /\ login_err = FALSE
    /\ login_ret = "pending"
    /\ run_ret = "pending"
    /\ held = {}
    /\ released = <<>>
    /\ form = <<>>
    /\ ran = NotRun

\* The storage variables while no poll and no harvest is modelled.
HarvestIdle ==
    /\ client_storage = <<>>
    /\ deadline = 0
    /\ loop_time = 0
    /\ captured = <<>>
    /\ candidates = {}
    /\ hpc = "idle"

(***************************************************************************)
(* Bounds of the model.                                                    *)
(***************************************************************************)
MaxN == 5          \* rows of a served dataset
PageSize == 2      \* rows a data site exposes per view
MaxViewRows == 2   \* rows a free page shows in one view
MaxTotal == 1      \* largest number a free page's indicator text carries

(***************************************************************************)
(* Python values.                                                          *)
(***************************************************************************)
None == -1
max_pages == 200

Truthy(s) == s # ""

\* dict.get(k) of a str->str dict; "" stands for the None of a missing key,
\* which the callers only test for truth.
Get(row, k) == IF k \in DOMAIN row THEN row[k] ELSE ""

\* Column names in the order sorted() gives them (code point order).
SortedCols == <<"Category", "Description", "Error", "Item", "Item #", "Name",
                "Note", "Price", "SKU", "_note">>

RECURSIVE DumpFrom(_, _, _)
DumpFrom(row, i, first) ==
    IF i > Len(SortedCols) THEN ""
    ELSE LET c == SortedCols[i] IN
         IF c \in DOMAIN row
         THEN (IF first THEN "" ELSE ", ")
              \o "\"" \o c \o "\": \"" \o row[c] \o "\""
              \o DumpFrom(row, i + 1, FALSE)
         ELSE DumpFrom(row, i + 1, first)

\* json.dumps(row, sort_keys=True)
JsonDumps(row) == "{" \o DumpFrom(row, 1, TRUE) \o "}"

\* A plausible slip: the name-like column is preferred to the identifier.
IdentityKeyNameFirst(row) ==
    IF Truthy(Get(row, "Name")) THEN Get(row, "Name")
    ELSE IF Truthy(Get(row, "Item #")) THEN Get(row, "Item #")
    ELSE IF Truthy(Get(row, "Item")) THEN Get(row, "Item")
    ELSE JsonDumps(row)

\* row.get('Item #') or row.get('Item') or row.get('Name') or json.dumps(row, sort_keys=True)
IdentityKey(row) ==
    IF Truthy(Get(row, "Item #")) THEN Get(row, "Item #")
    ELSE IF Truthy(Get(row, "Item")) THEN Get(row, "Item")
    ELSE IF Truthy(Get(row, "Name")) THEN Get(row, "Name")
    ELSE JsonDumps(row)

(***************************************************************************)
(* Rows.                                                                   *)
(***************************************************************************)
TableRow(item, name, price) ==
    [c \in {"Item #", "Name", "Price"} |->
        IF c = "Item #" THEN item ELSE IF c = "Name" THEN name ELSE price]

\* The rows a page's table can hold.  R1 and R2 share the identifier A1, R3
\* has no identifier and is keyed by its name, R4 has neither and is keyed
\* by its serialization.
R1 == TableRow("A1", "Bolt", "1")
R2 == TableRow("A1", "Nut", "2")
R3 == TableRow("", "Washer", "3")
R4 == TableRow("", "", "4")
R5 == TableRow("A2", "Bolt", "5")
R6 == TableRow("A3", "Nut", "6")
Catalogue == <<R1, R2, R3, R4, R5, R6>>
Rows == {Catalogue[i] : i \in DOMAIN Catalogue}

\* The rows a free page shows.
FreeRows == {R1, R2, R4}

\* A row synthesized from a member of a repeating-element group.
CardRow(name, price) ==
    [c \in {"Name", "Price"} |-> IF c = "Name" THEN name ELSE price]

\* A group of repeating sibling elements (at least three members).
CardGroup == <<CardRow("Gear", "$5"), CardRow("Cog", "$6"), CardRow("Gear", "$7")>>

PlaceholderRow ==
    [c \in {"Name", "Description", "Note"} |->
        IF c = "Name" THEN "Sample Product"
        ELSE IF c = "Description"
             THEN "This is a placeholder since no products were found"
             ELSE "This data was generated because no product table was found"]

SyntheticRow(n, desc, price, sku) ==
    [c \in {"Name", "Description", "Category", "Price", "SKU", "_note"} |->
        CASE c = "Name" -> "Example Product " \o n
          [] c = "Description" -> desc
          [] c = "Category" -> "Test"
          [] c = "Price" -> price
          [] c = "SKU" -> sku
          [] OTHER ->
             "This is synthetic data because actual product data could not be extracted"]

SyntheticRows ==
    <<SyntheticRow("1", "This is a placeholder product", "$99.99", "TEST-001"),
      SyntheticRow("2", "Another placeholder product", "$199.99", "TEST-002")>>

ErrorRows ==
    << [c \in {"Name", "Description", "Error", "_note"} |->
        CASE c = "Name" -> "Error Product"
          [] c = "Description" -> "Failed to extract product data"
          [] c = "Error" -> "error"
          [] OTHER ->
             "This is synthetic data because an error occurred during extraction"] >>

IsMarked(row) == "_note" \in DOMAIN row

\* Every row the model handles, and the identity key of each (the keys are
\* tabulated once; RowKey reads the table).
KnownRows ==
    Rows \cup {CardGroup[i] : i \in DOMAIN CardGroup} \cup {PlaceholderRow}
    \cup {SyntheticRows[i] : i \in DOMAIN SyntheticRows}
    \cup {ErrorRows[i] : i \in DOMAIN ErrorRows}

KeyTable == [row \in KnownRows |-> IdentityKey(row)]

RowKey(row) == KeyTable[row]

(***************************************************************************)
(* Sequences.                                                              *)
(***************************************************************************)
Range(s) == {s[i] : i \in 1..Len(s)}

Min(a, b) == IF a < b THEN a ELSE b

Prefix(s, n) == SubSeq(s, 1, Min(n, Len(s)))

SeqsUpTo(S, n) == UNION {[1..k -> S] : k \in 0..n}

InjSeqsUpTo(S, n) ==
    {s \in SeqsUpTo(S, n) : \A i, j \in 1..Len(s) : i # j => s[i] # s[j]}

NthSmallest(S, n) == CHOOSE i \in S : Cardinality({j \in S : j <= i}) = n

\* The elements of s at the indices in S, in the order of s.
Pick(s, S) == [n \in 1..Cardinality(S) |-> s[NthSmallest(S, n)]]

Reverse(s) == [i \in 1..Len(s) |-> s[Len(s) + 1 - i]]

\* The datasets a site may serve: up to MaxN catalogue rows, in catalogue
\* order or in the reverse order.
Datasets ==
    {Pick(c, S) : c \in {Catalogue, Reverse(Catalogue)},
                  S \in {T \in SUBSET (1..Len(Catalogue)) : Cardinality(T) <= MaxN}}

(***************************************************************************)
(* The page.                                                               *)
(***************************************************************************)
\* A page whose every observation is arbitrary and whose operations may raise.
FreeSite == [kind |-> "free", data |-> <<>>, mode |-> "paged", adv |-> "next",
             atEnd |-> "gone", ind |-> "none"]

\* A site serving the dataset `data`, PageSize rows per view.
\*   mode  "paged": view k shows the k-th chunk; "cum": view k shows chunks 1..k
\*   adv   the affordance that brings the following view: a next control, a
\*         load-more control, or scrolling
\*   atEnd the affordance on the last view: removed, disabled by attribute,
\*         disabled by aria-disabled, or still active but without effect
\*   ind   the "Showing X of N products" text: absent, X = rows of the view,
\*         or X = rows served up to and including the view
DataSites ==
    {s \in [kind : {"data"}, data : Datasets,
            mode : {"paged", "cum"}, adv : {"next", "more", "scroll"},
            atEnd : {"gone", "disabled", "aria", "dead"},
            ind : {"none", "page", "cum"}] :
        /\ s.adv = "more" => s.atEnd \in {"gone", "dead"}
        /\ s.adv = "scroll" => s.atEnd = "gone"}

IsFree == site.kind = "free"

\* The free page without a load-more control.
QuietSite == [FreeSite EXCEPT !.adv = "scroll"]

NumViews(s) ==
    IF Len(s.data) = 0 THEN 1 ELSE (Len(s.data) + PageSize - 1) \div PageSize

ServedUpTo(s, p) == Min(p * PageSize, Len(s.data))

\* The table rows the data site renders in view p.
ViewTable(s, p) ==
    SubSeq(s.data, IF s.mode = "cum" THEN 1 ELSE (p - 1) * PageSize + 1,
           ServedUpTo(s, p))

\* What a structural extraction pass may find, or that it raised: the rows of
\* the largest table, the rows of the first table in document order, the rows
\* of a repeating-element group.
ExtractError == [ok |-> FALSE, table |-> <<>>, first |-> <<>>, cards |-> <<>>]

FreeViews ==
    UNION {{[ok |-> TRUE, table |-> t, first |-> f, cards |-> c] :
               f \in {t, <<>>}, c \in {<<>>, CardGroup}} :
           t \in InjSeqsUpTo(FreeRows, MaxViewRows)}

ViewObs(s, p) ==
    IF s.kind = "free" THEN FreeViews \cup {ExtractError}
    ELSE {[ok |-> TRUE, table |-> ViewTable(s, p), first |-> ViewTable(s, p),
           cards |-> <<>>]}

\* The same for extract_current_page, which reads the first table only.
TableObs(s, p) == {v \in ViewObs(s, p) : v.cards = <<>> /\ v.table = v.first}

\* What re.search finds in page.inner_text("body"), or that inner_text raised.
TextError == [ok |-> FALSE, match |-> FALSE, shown |-> 0, total |-> 0]
NoMatch == [ok |-> TRUE, match |-> FALSE, shown |-> 0, total |-> 0]

\* The largest number the indicator of a free page shows: on the quiet page
\* it can exceed the number of rows the page has.
TopTotal(s) == IF s = QuietSite THEN Cardinality(FreeRows) ELSE MaxTotal

IndObs(s, p) ==
    IF s.kind = "free"
    THEN {TextError, NoMatch} \cup
         [ok : {TRUE}, match : {TRUE}, shown : 0..TopTotal(s),
          total : 0..TopTotal(s)]
    ELSE IF s.ind = "none" THEN {NoMatch}
    ELSE {[ok |-> TRUE, match |-> TRUE,
           shown |-> IF s.ind = "page" THEN Len(ViewTable(s, p))
                     ELSE ServedUpTo(s, p),
           total |-> Len(s.data)]}

\* The state of the element one next-selector resolves to.
\*   "absent"   no element (is_enabled raises after its timeout)
\*   "hidden"   present but not visible
\*   "disabled" carries the disabled attribute
\*   "aria"     carries aria-disabled="true" only
\*   "enabled"  visible and enabled
CtlStates == {"absent", "hidden", "disabled", "aria", "enabled"}

NumNextSelectors == 6
NumLoadMoreSelectors == 3

OneOf(n, i, st) == [j \in 1..n |-> IF j = i THEN st ELSE "absent"]

\* The states of the six next-selectors, in list order.
NextObs(s, p) ==
    IF s.kind = "free"
    THEN {OneOf(NumNextSelectors, i, st) :
              i \in {1, NumNextSelectors}, st \in CtlStates}
         \cup {[OneOf(NumNextSelectors, 1, st)
                    EXCEPT ![NumNextSelectors] = "enabled"] :
                    st \in {"disabled", "aria"}}
    ELSE {OneOf(NumNextSelectors, 1,
              IF s.adv # "next" THEN "absent"
              ELSE IF p < NumViews(s) THEN "enabled"
              ELSE CASE s.atEnd = "gone" -> "absent"
                     [] s.atEnd = "disabled" -> "disabled"
                     [] s.atEnd = "aria" -> "aria"
                     [] OTHER -> "enabled")}

\* Whether each of the three load-more selectors is visible, in list order.
MoreObs(s, p) ==
    IF s = QuietSite
    THEN {OneOf(NumLoadMoreSelectors, 1, "absent")}
    ELSE IF s.kind = "free"
    THEN {OneOf(NumLoadMoreSelectors, i, st) :
              i \in {1, NumLoadMoreSelectors}, st \in {"absent", "enabled"}}
    ELSE {OneOf(NumLoadMoreSelectors, 1,
              IF s.adv = "more" /\ (p < NumViews(s) \/ s.atEnd = "dead")
              THEN "enabled" ELSE "absent")}

\* Whether the operations after a resolved control (click, wait, wheel) raise.
RaiseObs(s) == IF s.kind = "free" THEN {FALSE, TRUE} ELSE {FALSE}

\* The view the data site renders after affordance `how` was activated.
Advance(s, p, how) ==
    IF s.kind = "data" /\ s.adv = how /\ p < NumViews(s) THEN p + 1 ELSE p

(***************************************************************************)
(* extract_table_data.                                                     *)
(***************************************************************************)
\* A plausible slip: no placeholder is synthesized.
InitialRowsNoPlaceholder(v) ==
    IF v.table # <<>> THEN v.table ELSE v.cards

\* The products the first page.evaluate returns: the rows of the table, else
\* the rows synthesized from a repeating-element group, else one placeholder.
InitialRows(v) ==
    IF v.table # <<>> THEN v.table
    ELSE IF v.cards # <<>> THEN v.cards
    ELSE <<PlaceholderRow>>

\* A plausible slip: the first data row is taken for the header row.
CurrentPageRowsHeaderless(v) ==
    IF v.first = <<>> THEN <<>> ELSE Tail(v.first)

\* The rows extract_current_page returns: those of the first table, if any.
CurrentPageRows(v) == v.first

\* A plausible slip: every row of a pass is appended, seen or not.
RECURSIVE CollectAll(_, _, _)
CollectAll(rows, prods, keys) ==
    IF rows = <<>> THEN [prods |-> prods, keys |-> keys, added |-> 0]
    ELSE LET r == CollectAll(Tail(rows), Append(prods, Head(rows)),
                             keys \cup {RowKey(Head(rows))})
         IN  [r EXCEPT !.added = @ + 1]

\* for row in rows: key = ...; if key not in collected_keys: add, append
RECURSIVE Collect(_, _, _)
Collect(rows, prods, keys) ==
    IF rows = <<>> THEN [prods |-> prods, keys |-> keys, added |-> 0]
    ELSE LET key == RowKey(Head(rows)) IN
         IF key \in keys THEN Collect(Tail(rows), prods, keys)
         ELSE LET r == Collect(Tail(rows), Append(prods, Head(rows)),
                               keys \cup {key})
              IN  [r EXCEPT !.added = @ + 1]

\* A plausible slip: the scan starts one candidate late.
RECURSIVE FirstEnabledLate(_, _)
FirstEnabledLate(cands, i) ==
    IF i + 1 > Len(cands) THEN 0
    ELSE IF cands[i + 1] = "enabled" THEN i + 1
    ELSE FirstEnabledLate(cands, i + 1)

\* A plausible slip: aria-disabled is not looked at.
RECURSIVE FirstEnabledOrAria(_, _)
FirstEnabledOrAria(cands, i) ==
    IF i > Len(cands) THEN 0
    ELSE IF cands[i] \in {"enabled", "aria"} THEN i
    ELSE FirstEnabledOrAria(cands, i + 1)

\* Index of the first candidate the loop acts on, 0 if there is none.
RECURSIVE FirstEnabled(_, _)
FirstEnabled(cands, i) ==
    IF i > Len(cands) THEN 0
    ELSE IF cands[i] = "enabled" THEN i
    ELSE FirstEnabled(cands, i + 1)

\* Python's truth value of total_expected.
TruthyInt(n) == n # None /\ n # 0

\* A plausible slip: the ceiling is never applied.
OverCeilingNever(n) == FALSE

\* if pagination_attempts > max_pages
OverCeiling(n) == n > max_pages

\* A plausible slip: the trim is skipped.
TrimmedNot(prods, total) == prods

\* if total_expected and len(all_products) > total_expected: all_products[:total_expected]
Trimmed(prods, total) ==
    IF TruthyInt(total) /\ Len(prods) > total THEN Prefix(prods, total)
    ELSE prods

\* What a step read from the page: the indicator text, the candidate controls
\* and the index of the one it clicked (0 for none), the view it extracted.
Sight(step, ind, cands, clicked, v) ==
    [step |-> step, ind |-> ind, cands |-> cands, clicked |-> clicked,
     view |-> v]

NoSight == Sight("none", NoMatch, <<>>, 0, ExtractError)

\* The history is kept by the behaviours that start with a sight other than
\* NoSight; the others carry NoSight throughout.
Note(s) == IF seen = NoSight THEN NoSight ELSE s

\* Leaving the pagination loop (break, or the except around it).
Leave(why) ==
    /\ xpc' = "trim"
    /\ stopWhy' = why

\* asyncio.sleep, wait_for_load_state, the tab and "View Products" clicks.
Preamble ==
    /\ xpc = "start"
    /\ \E raised \in RaiseObs(site) :
         IF raised
         THEN /\ xpc' = "done"
              /\ result' = ErrorRows
              /\ stopWhy' = "failed"
         ELSE /\ xpc' = "initial"
              /\ UNCHANGED <<result, stopWhy>>
    /\ UNCHANGED <<site, pos, all_products, collected_keys, total_expected,
                   pagination_attempts, seen>>
    /\ UNCHANGED svars
    /\ UNCHANGED lvars
    /\ UNCHANGED hvars

\* The first structural extraction and its except branch.
InitialExtractAborts ==
    /\ xpc = "initial"
    /\ \E v \in ViewObs(site, pos) :
         /\ seen' = Note(Sight("initial", NoMatch, <<>>, 0, v))
         /\ IF v.ok
            THEN LET c == Collect(InitialRows(v), all_products, collected_keys)
                 IN  /\ all_products' = c.prods
                     /\ collected_keys' = c.keys
            ELSE /\ all_products' = <<>>
                 /\ UNCHANGED collected_keys
    /\ xpc' = "detect"
    /\ UNCHANGED <<site, pos, total_expected, pagination_attempts, result,
                   stopWhy>>
    /\ UNCHANGED svars
    /\ UNCHANGED lvars
    /\ UNCHANGED hvars
InitialExtract ==
    /\ xpc = "initial"
    /\ \E v \in ViewObs(site, pos) :
         /\ seen' = Note(Sight("initial", NoMatch, <<>>, 0, v))
         /\ IF v.ok
            THEN LET c == Collect(InitialRows(v), all_products, collected_keys)
                 IN  /\ all_products' = c.prods
                     /\ collected_keys' = c.keys
            ELSE /\ all_products' = SyntheticRows
                 /\ UNCHANGED collected_keys
    /\ xpc' = "detect"
    /\ UNCHANGED <<site, pos, total_expected, pagination_attempts, result,
                   stopWhy>>
    /\ UNCHANGED svars
    /\ UNCHANGED lvars
    /\ UNCHANGED hvars

\* The first search for the "Showing X of Y products" text.
DetectTotal ==
    /\ xpc = "detect"
    /\ \E ind \in IndObs(site, pos) :
         /\ seen' = Note(Sight("detect", ind, <<>>, 0, ExtractError))
         /\ IF ~ind.ok
            THEN /\ Leave("failed")
                 /\ UNCHANGED total_expected
            ELSE /\ total_expected' = IF ind.match THEN ind.total
                                      ELSE total_expected
                 /\ xpc' = "head"
                 /\ UNCHANGED stopWhy
    /\ UNCHANGED <<site, pos, all_products, collected_keys, pagination_attempts,
                   result>>
    /\ UNCHANGED svars
    /\ UNCHANGED lvars
    /\ UNCHANGED hvars

\* A plausible slip: every refreshed indicator replaces the total.
KeptTotalRefreshed(ind, cur) ==
    IF ind.ok /\ ind.match THEN ind.total ELSE cur

\* if total_expected is None: total_expected = total_now
KeptTotal(ind, cur) ==
    IF ind.ok /\ ind.match /\ cur = None THEN ind.total ELSE cur

\* The head of "while True": the refreshed indicator, the three stop tests.
LoopHead ==
    /\ xpc = "head"
    /\ \E ind \in IndObs(site, pos) :
         LET found == ind.ok /\ ind.match
             total == KeptTotal(ind, total_expected)
             \* lines 1063-1068, reached when the try block did not break
             Tests ==
                 /\ UNCHANGED <<all_products, collected_keys>>
                 /\ IF total # None /\ Len(all_products) >= total
                    THEN /\ Leave("total")
                         /\ UNCHANGED pagination_attempts
                    ELSE /\ pagination_attempts' = pagination_attempts + 1
                         /\ IF OverCeiling(pagination_attempts + 1)
                            THEN Leave("ceiling")
                            ELSE /\ xpc' = "next"
                                 /\ UNCHANGED stopWhy
         IN  /\ total_expected' = total
             /\ IF found /\ ind.shown >= ind.total
                THEN \E v \in TableObs(site, pos) :
                       /\ seen' = Note(Sight("head", ind, <<>>, 0, v))
                       /\ IF v.ok
                          THEN LET c == Collect(CurrentPageRows(v),
                                                all_products, collected_keys)
                               IN  /\ all_products' = c.prods
                                   /\ collected_keys' = c.keys
                                   /\ Leave("shown")
                                   /\ UNCHANGED pagination_attempts
                          ELSE Tests
                ELSE /\ seen' = Note(Sight("head", ind, <<>>, 0, ExtractError))
                     /\ Tests
    /\ UNCHANGED <<site, pos, result>>
    /\ UNCHANGED svars
    /\ UNCHANGED lvars
    /\ UNCHANGED hvars

\* The loop over next_selectors.
TryNext ==
    /\ xpc = "next"
    /\ \E cands \in NextObs(site, pos) :
         LET i == FirstEnabled(cands, 1)
             Failed == /\ xpc' = "more"
                       /\ UNCHANGED <<all_products, collected_keys>>
         IN  /\ seen' = Note(Sight("next", NoMatch, cands, i, ExtractError))
             /\ IF i = 0
                THEN Failed /\ UNCHANGED pos
                ELSE
                  /\ pos' = Advance(site, pos, "next")
                  /\ \E raised \in RaiseObs(site) :
                       IF raised
                       THEN Failed
                       ELSE \E v \in TableObs(site, pos') :
                              IF ~v.ok
                              THEN Failed
                              ELSE LET c == Collect(CurrentPageRows(v),
                                                    all_products, collected_keys)
                                   IN  /\ all_products' = c.prods
                                       /\ collected_keys' = c.keys
                                       /\ xpc' = IF c.added > 0 THEN "head"
                                                 ELSE "more"
    /\ UNCHANGED <<site, total_expected, pagination_attempts, result, stopWhy>>
    /\ UNCHANGED svars
    /\ UNCHANGED lvars
    /\ UNCHANGED hvars

\* The loop over load_more_selectors.
TryLoadMore ==
    /\ xpc = "more"
    /\ \E cands \in MoreObs(site, pos) :
         LET i == FirstEnabled(cands, 1)
             Failed == /\ xpc' = "scroll"
                       /\ UNCHANGED <<all_products, collected_keys>>
         IN  /\ seen' = Note(Sight("more", NoMatch, cands, i, ExtractError))
             /\ IF i = 0
                THEN Failed /\ UNCHANGED pos
                ELSE
                  /\ pos' = Advance(site, pos, "more")
                  /\ \E raised \in RaiseObs(site) :
                       IF raised
                       THEN Failed
                       ELSE \E v \in TableObs(site, pos') :
                              IF ~v.ok
                              THEN Failed
                              ELSE LET c == Collect(CurrentPageRows(v),
                                                    all_products, collected_keys)
                                   IN  /\ all_products' = c.prods
                                       /\ collected_keys' = c.keys
                                       /\ xpc' = "head"
    /\ UNCHANGED <<site, total_expected, pagination_attempts, result, stopWhy>>
    /\ UNCHANGED svars
    /\ UNCHANGED lvars
    /\ UNCHANGED hvars

\* The simulated scroll, the last strategy.
TryScroll ==
    /\ xpc = "scroll"
    /\ \E raised \in RaiseObs(site) :
         LET Failed == /\ Leave("exhausted")
                       /\ UNCHANGED <<all_products, collected_keys>>
         IN  IF raised
             THEN Failed /\ UNCHANGED pos
             ELSE /\ pos' = Advance(site, pos, "scroll")
                  /\ \E v \in TableObs(site, pos') :
                       IF ~v.ok
                       THEN Failed
                       ELSE LET c == Collect(CurrentPageRows(v), all_products,
                                             collected_keys)
                            IN  /\ all_products' = c.prods
                                /\ collected_keys' = c.keys
                                /\ IF Len(c.prods) > Len(all_products)
                                   THEN IF TruthyInt(total_expected)
                                           /\ Len(c.prods) >= total_expected
                                        THEN Leave("total")
                                        ELSE /\ xpc' = "head"
                                             /\ UNCHANGED stopWhy
                                   ELSE Leave("exhausted")
    /\ seen' = Note(Sight("scroll", NoMatch, <<>>, 0, ExtractError))
    /\ UNCHANGED <<site, total_expected, pagination_attempts, result>>
    /\ UNCHANGED svars
    /\ UNCHANGED lvars
    /\ UNCHANGED hvars

\* The hard trim and the return.
TrimAndReturn ==
    /\ xpc = "trim"
    /\ result' = Trimmed(all_products, total_expected)
    /\ xpc' = "done"
    /\ seen' = Note(Sight("trim", NoMatch, <<>>, 0, ExtractError))
    /\ UNCHANGED <<site, pos, all_products, collected_keys, total_expected,
                   pagination_attempts, stopWhy>>
    /\ UNCHANGED svars
    /\ UNCHANGED lvars
    /\ UNCHANGED hvars

ExtractNext ==
    \/ Preamble
    \/ InitialExtract
    \/ DetectTotal
    \/ LoopHead
    \/ TryNext
    \/ TryLoadMore
    \/ TryScroll
    \/ TrimAndReturn

\* The locals of extract_table_data as the function is entered.
ExtractInit ==
    /\ pos = 1
    /\ xpc = "start"
    /\ all_products = <<>>
    /\ collected_keys = {}
    /\ total_expected = None
    /\ pagination_attempts = 0
    /\ result = <<>>
    /\ stopWhy = "none"

(***************************************************************************)
(* The session store.                                                      *)
(*                                                                         *)
(* A JSON object is a record whose fields are the keys that are present;   *)
(* {} and Python's None, which the code never tells apart (both are        *)
(* falsy), are the empty function <<>>.  A timestamp is a number of        *)
(* minutes, JSON null is None, and NotATime is a string that               *)
(* datetime.fromisoformat rejects.                                         *)
(***************************************************************************)
MaxTime == 3       \* the clock stops here
MaxAge == 2        \* largest max_age_minutes configured or stored
MaxRuns == 2       \* processes started one after the other

NotATime == -3
NoState == <<>>
NoMeta == <<>>
username == "user@example.com"

Cookies == {<<>>, <<"c1">>}
Origins == {<<>>, <<"ls1">>}
StorageStates == [cookies : Cookies, origins : Origins]

\* d.get(k) for a list-valued key: None and [] are both falsy.
ListGet(d, k) == IF k \in DOMAIN d THEN d[k] ELSE <<>>
\* d.get(k) for a timestamp-valued key.
TimeGet(d, k) == IF k \in DOMAIN d THEN d[k] ELSE None

\* storage_state and (storage_state.get("cookies") or storage_state.get("origins"))
HasData(s) ==
    /\ s # NoState
    /\ (ListGet(s, "cookies") # <<>> \/ ListGet(s, "origins") # <<>>)

\* A file: missing, shorter than 5 bytes, longer but not JSON, JSON that is
\* not an object, or a JSON object (data).
NoFile == [kind |-> "missing", data |-> <<>>]
TinyFile == [kind |-> "tiny", data |-> <<>>]
MalformedFile == [kind |-> "malformed", data |-> <<>>]
NonDictFile == [kind |-> "nondict", data |-> <<>>]
DictFile(d) == [kind |-> "dict", data |-> d]

\* Token mappings: sets of <<name, value>> with one value per name.
V1 == "eyJhbGciOiJIUzI1NiJ9.a"
V2 == "eyJhbGciOiJIUzI1NiJ9.b"
ShortValue == "abc"
Names(T) == {p[1] : p \in T}
IsMapping(T) == \A p, q \in T : p[1] = q[1] => p = q
Mappings(P) == {T \in SUBSET P : IsMapping(T)}
\* dict.update
Update(a, b) == {p \in a : p[1] \notin Names(b)} \cup b

\* What the page holds when the harvester looks: localStorage and the
\* globals of window; either evaluation may raise.
Raised == {<<"raised", "raised">>}
LocalStorages ==
    Mappings({<<"AUTH_TOKEN", V1>>, <<"AUTH_TOKEN", ShortValue>>,
              <<"theme", "dark-theme-1">>})
WindowGlobals ==
    Mappings({<<"AUTH_TOKEN", V2>>, <<"AUTH_TOKEN", ShortValue>>,
              <<"SESSION_ID", V1>>, <<"appToken", V1>>})
HarvestObs == [ls : LocalStorages \cup {Raised}, win : WindowGlobals \cup {Raised}]

\* The markers contained in k.lower().
MarkersIn(k) ==
    CASE k = "AUTH_TOKEN" -> {"auth", "token"}
      [] k = "appToken" -> {"token"}
      [] k = "SESSION_ID" -> {"session"}
      [] OTHER -> {}
\* k === k.toUpperCase() || k.startsWith('__')
IsUpperOrDunder(k) == k \in {"AUTH_TOKEN", "SESSION_ID"}

\* _extract_tokens: the candidates found on the page.
ExtractTokensAnyLength(o) ==
    IF o.ls = Raised THEN {}
    ELSE LET fromLs ==
                 {p \in o.ls :
                     MarkersIn(p[1]) \cap
                          {"token", "auth", "jwt", "bearer", "session"} # {}}
             props ==
                 IF o.win = Raised THEN {}
                 ELSE {p \in o.win : IsUpperOrDunder(p[1]) /\ Len(p[2]) > 15}
             fromWin ==
                 {p \in props : MarkersIn(p[1]) \cap {"token", "auth", "jwt"} # {}}
         IN  Update(fromLs, fromWin)
ExtractTokens(o) ==
    IF o.ls = Raised THEN {}
    ELSE LET fromLs ==
                 {p \in o.ls :
                     /\ Len(p[2]) > 8
                     /\ MarkersIn(p[1]) \cap
                          {"token", "auth", "jwt", "bearer", "session"} # {}}
             props ==
                 IF o.win = Raised THEN {}
                 ELSE {p \in o.win : IsUpperOrDunder(p[1]) /\ Len(p[2]) > 15}
             fromWin ==
                 {p \in props : MarkersIn(p[1]) \cap {"token", "auth", "jwt"} # {}}
         IN  Update(fromLs, fromWin)
HarvestResults == {ExtractTokens(o) : o \in HarvestObs}

\* _wrap_storage_state, the clock read at t1 and then at t2.
WrapStorageState(meta, storage, t1, t2) ==
    [version |-> 1,
     created_at |-> IF meta # NoMeta THEN TimeGet(meta, "created_at") ELSE t1,
     last_verified |-> t2,
     username |-> username,
     storage_state |-> storage]

\* wrapped["tokens"] = self._tokens
WithTokens(wrapped, tk) ==
    [k \in DOMAIN wrapped \cup {"tokens"} |->
        IF k = "tokens" THEN tk ELSE wrapped[k]]

\* _parse_session_file at time t: the returned storage state and the new
\* values of _loaded_session_meta and _loaded_tokens.
ParseSessionFileWhole(file, raw, meta, ltok, t) ==
    IF file.kind \in {"missing", "tiny"}
    THEN [ret |-> IF raw.kind = "dict" /\ HasData(raw.data)
                  THEN raw.data ELSE NoState,
          meta |-> meta, tokens |-> ltok]
    ELSE IF file.kind # "dict"
    THEN [ret |-> NoState, meta |-> meta, tokens |-> ltok]
    ELSE LET data == file.data
             tk == IF "tokens" \in DOMAIN data /\ data.tokens # {}
                   THEN data.tokens ELSE ltok
         IN  IF "cookies" \in DOMAIN data \/ "origins" \in DOMAIN data
             THEN [ret |-> data,
                   meta |-> [created_at |-> t, last_verified |-> t],
                   tokens |-> tk]
             ELSE IF "storage_state" \in DOMAIN data
             THEN [ret |-> data,
                   meta |-> [k \in {"created_at", "last_verified", "username"}
                                     \cap DOMAIN data |-> data[k]],
                   tokens |-> tk]
             ELSE [ret |-> NoState, meta |-> meta, tokens |-> tk]
ParseSessionFileNoRaw(file, raw, meta, ltok, t) ==
    IF file.kind \in {"missing", "tiny"}
    THEN [ret |-> NoState, meta |-> meta, tokens |-> ltok]
    ELSE ParseSessionFileWhole(file, raw, meta, ltok, t)
ParseSessionFileNoLegacy(file, raw, meta, ltok, t) ==
    IF file.kind \in {"missing", "tiny"}
    THEN [ret |-> IF raw.kind = "dict" /\ HasData(raw.data)
                  THEN raw.data ELSE NoState,
          meta |-> meta, tokens |-> ltok]
    ELSE IF file.kind # "dict"
    THEN [ret |-> NoState, meta |-> meta, tokens |-> ltok]
    ELSE LET data == file.data
             tk == IF "tokens" \in DOMAIN data /\ data.tokens # {}
                   THEN data.tokens ELSE ltok
         IN  IF "storage_state" \in DOMAIN data
             THEN [ret |-> data.storage_state,
                   meta |-> [k \in {"created_at", "last_verified", "username"}
                                     \cap DOMAIN data |-> data[k]],
                   tokens |-> tk]
             ELSE [ret |-> NoState, meta |-> meta, tokens |-> tk]
ParseSessionFile(file, raw, meta, ltok, t) ==
    IF file.kind \in {"missing", "tiny"}
    THEN [ret |-> IF raw.kind = "dict" /\ HasData(raw.data)
                  THEN raw.data ELSE NoState,
          meta |-> meta, tokens |-> ltok]
    ELSE IF file.kind # "dict"
    THEN [ret |-> NoState, meta |-> meta, tokens |-> ltok]
    ELSE LET data == file.data
             tk == IF "tokens" \in DOMAIN data /\ data.tokens # {}
                   THEN data.tokens ELSE ltok
         IN  IF "cookies" \in DOMAIN data \/ "origins" \in DOMAIN data
             THEN [ret |-> data,
                   meta |-> [created_at |-> t, last_verified |-> t],
                   tokens |-> tk]
             ELSE IF "storage_state" \in DOMAIN data
             THEN [ret |-> data.storage_state,
                   meta |-> [k \in {"created_at", "last_verified", "username"}
                                     \cap DOMAIN data |-> data[k]],
                   tokens |-> tk]
             ELSE [ret |-> NoState, meta |-> meta, tokens |-> tk]

\* _session_age_minutes at time t (None when unknown).
SessionAgeMinutes(meta, t) ==
    IF meta = NoMeta \/ TimeGet(meta, "last_verified") \in {None, NotATime}
    THEN None
    ELSE t - meta.last_verified

\* _save_session, lines 121-146: the storage state that is written, from
\* what context.storage_state(), context.cookies() and the page's
\* localStorage return (an error of the last two is swallowed).
Enriched(o) ==
    [cookies |-> IF o.state.cookies # <<>> THEN o.state.cookies ELSE o.cookies,
     origins |-> IF o.state.origins # <<>> THEN o.state.origins
                 ELSE o.local_items]
EnrichObs == [state : StorageStates, cookies : Cookies, local_items : Origins]
SavedStates == {Enriched(o) : o \in EnrichObs}

\* _save_session, lines 149-170: the wrapper replaces the file when the
\* state has cookies or origins, and also when it has neither.
WriteSessionFileIfData(cur, st, data) ==
    IF HasData(st) THEN DictFile(data) ELSE cur
WriteSessionFile(cur, st, data) ==
    IF HasData(st) THEN DictFile(data) ELSE DictFile(data)

NotPersisted == [ok |-> FALSE, storage |-> NoState, tokens |-> {}]

\* _save_session with self._tokens = tk.  context.storage_state() or
\* open() may raise before the file is touched; json.dump may fail after
\* open(..., "w") has truncated the file.
SaveSession(tk) ==
    \E out \in {"raise", "truncated", "partial", "written"} :
        IF out = "raise"
        THEN /\ lastOp' = "save_error"
             /\ UNCHANGED <<now, session_file, raw_state_file, persisted>>
        ELSE IF out \in {"truncated", "partial"}
        THEN /\ session_file' = IF out = "truncated" THEN TinyFile
                                ELSE MalformedFile
             /\ persisted' = NotPersisted
             /\ lastOp' = "save_error"
             /\ UNCHANGED <<now, raw_state_file>>
        ELSE \E st \in SavedStates, t2 \in now..Min(now + 1, MaxTime) :
                LET wrapped ==
                        WrapStorageState(loaded_session_meta, st, now, t2)
                IN  /\ session_file' =
                           WriteSessionFile(session_file, st,
                               IF tk # {} THEN WithTokens(wrapped, tk)
                               ELSE wrapped)
                    /\ raw_state_file' = DictFile(st)
                    /\ now' = t2
                    /\ persisted' = [ok |-> TRUE, storage |-> st, tokens |-> tk]
                    /\ lastOp' = "save"

\* _extract_tokens followed by _save_session.
HarvestAndSave ==
    \E cand \in HarvestResults :
        /\ tokens' = Update(tokens, cand)
        /\ SaveSession(Update(tokens, cand))

NoStoreChange ==
    /\ lastOp' = "none"
    /\ UNCHANGED <<now, session_file, raw_state_file, persisted, tokens>>

\* DataExtractor.init_browser; launching the browser may raise.
InitBrowser ==
    /\ prog = "dx"
    /\ spc = "start"
    /\ \E launched \in BOOLEAN :
          IF ~launched
          THEN /\ spc' = "closed"
               /\ UNCHANGED <<loaded_session_meta, loaded_tokens,
                              storage_state, context_storage>>
          ELSE /\ spc' = "login"
               /\ IF ~force_login
                  THEN LET p == ParseSessionFile(session_file, raw_state_file,
                                   loaded_session_meta, loaded_tokens, now)
                       IN  /\ storage_state' = p.ret
                           /\ loaded_session_meta' = p.meta
                           /\ loaded_tokens' = p.tokens
                           /\ context_storage' =
                                  IF HasData(p.ret) THEN p.ret ELSE NoState
                  ELSE UNCHANGED <<loaded_session_meta, loaded_tokens,
                                   storage_state, context_storage>>
    /\ NoStoreChange
    /\ UNCHANGED <<prog, force_login, max_age_minutes, loaded_meta,
                   loaded_storage_state, runs>>
    /\ UNCHANGED xvars
    /\ UNCHANGED lvars
    /\ UNCHANGED hvars

\* DataExtractor.login: the stored session validates, or the form login
\* is verified, or login returns False.
Login ==
    /\ prog = "dx"
    /\ spc = "login"
    /\ \E outcome \in {"validated", "form", "failed"} :
          /\ outcome = "validated" => ~force_login
          /\ IF outcome = "failed"
             THEN spc' = "closed" /\ NoStoreChange
             ELSE spc' = "wizard" /\ HarvestAndSave
    /\ UNCHANGED <<prog, force_login, max_age_minutes, loaded_session_meta,
                   loaded_tokens, storage_state, context_storage, loaded_meta,
                   loaded_storage_state, runs>>
    /\ UNCHANGED xvars
    /\ UNCHANGED lvars
    /\ UNCHANGED hvars

\* DataExtractor.navigate_wizard: it fails, or it finds the product table
\* and saves the session, or it goes on without having seen the table.
NavigateWizard ==
    /\ prog = "dx"
    /\ spc = "wizard"
    /\ \E outcome \in {"failed", "table", "no_table"} :
          IF outcome = "failed" THEN spc' = "closed" /\ NoStoreChange
          ELSE IF outcome = "table" THEN spc' = "final" /\ HarvestAndSave
          ELSE spc' = "final" /\ NoStoreChange
    /\ UNCHANGED <<prog, force_login, max_age_minutes, loaded_session_meta,
                   loaded_tokens, storage_state, context_storage, loaded_meta,
                   loaded_storage_state, runs>>
    /\ UNCHANGED xvars
    /\ UNCHANGED lvars
    /\ UNCHANGED hvars

\* DataExtractor.run after the wizard: extraction and the data file, then
\* the final save of the session.
FinalSave ==
    /\ prog = "dx"
    /\ spc = "final"
    /\ spc' = "closed"
    /\ \E written \in BOOLEAN :
          IF written THEN HarvestAndSave ELSE NoStoreChange
    /\ UNCHANGED <<prog, force_login, max_age_minutes, loaded_session_meta,
                   loaded_tokens, storage_state, context_storage, loaded_meta,
                   loaded_storage_state, runs>>
    /\ UNCHANGED xvars
    /\ UNCHANGED lvars
    /\ UNCHANGED hvars

SessionMetaFields ==
    {"version", "created_at", "last_verified", "username", "max_age_minutes"}

\* SessionMeta.new at time t.
SessionMetaNew(max_age, t) ==
    [version |-> 1, created_at |-> t, last_verified |-> t,
     username |-> username, max_age_minutes |-> max_age]

\* now - last > timedelta(minutes=max_age)
ExpiredAtLimit(t, last, max_age) == t - last >= max_age
Expired(t, last, max_age) == t - last > max_age

\* SessionManager._try_load_session at time t: the new values of
\* _loaded_meta and _loaded_storage_state.
TryLoadSessionAnyAge(file, meta, storage, t) ==
    LET nothing == [meta |-> meta, storage |-> storage]
    IN  IF file.kind # "dict" THEN nothing
        ELSE LET data == file.data
                 meta_raw == IF "meta" \in DOMAIN data THEN data.meta
                             ELSE NoMeta
                 st == IF "storage_state" \in DOMAIN data
                       THEN data.storage_state ELSE NoState
             IN  IF meta_raw = NoMeta \/ st = NoState THEN nothing
                 ELSE IF DOMAIN meta_raw # SessionMetaFields THEN nothing
                 ELSE [meta |-> meta_raw, storage |-> st]
TryLoadSession(file, meta, storage, t) ==
    LET nothing == [meta |-> meta, storage |-> storage]
    IN  IF file.kind # "dict" THEN nothing
        ELSE LET data == file.data
                 meta_raw == IF "meta" \in DOMAIN data THEN data.meta
                             ELSE NoMeta
                 st == IF "storage_state" \in DOMAIN data
                       THEN data.storage_state ELSE NoState
             IN  IF meta_raw = NoMeta \/ st = NoState THEN nothing
                 ELSE IF DOMAIN meta_raw # SessionMetaFields THEN nothing
                 ELSE IF /\ meta_raw.last_verified \notin {None, NotATime}
                         /\ Expired(t, meta_raw.last_verified,
                                    meta_raw.max_age_minutes)
                 THEN nothing
                 ELSE [meta |-> meta_raw, storage |-> st]

\* SessionManager.ensure_session, lines 104-110: _launch, which may raise,
\* then _try_load_session.
LaunchAndLoad ==
    /\ prog = "sm"
    /\ spc = "start"
    /\ \E launched \in BOOLEAN :
          IF ~launched
          THEN /\ spc' = "closed"
               /\ UNCHANGED <<context_storage, loaded_meta,
                              loaded_storage_state>>
          ELSE /\ spc' = "validate"
               /\ context_storage' = loaded_storage_state
               /\ IF ~force_login
                  THEN LET l == TryLoadSession(session_file, loaded_meta,
                                               loaded_storage_state, now)
                       IN  /\ loaded_meta' = l.meta
                           /\ loaded_storage_state' = l.storage
                  ELSE UNCHANGED <<loaded_meta, loaded_storage_state>>
    /\ NoStoreChange
    /\ UNCHANGED <<prog, force_login, max_age_minutes, loaded_session_meta,
                   loaded_tokens, storage_state, runs>>
    /\ UNCHANGED xvars
    /\ UNCHANGED lvars
    /\ UNCHANGED hvars

\* SessionManager._persist(verified=True).
Persist ==
    \E out \in {"raise", "truncated", "partial", "written"} :
        IF out = "raise"
        THEN /\ lastOp' = "save_error"
             /\ UNCHANGED <<now, session_file, persisted, loaded_meta>>
        ELSE \E t1 \in now..Min(now + 1, MaxTime) :
                LET meta == IF loaded_meta # NoMeta THEN loaded_meta
                            ELSE SessionMetaNew(max_age_minutes, now)
                    stamped == [meta EXCEPT !.last_verified = t1]
                IN  /\ now' = t1
                    /\ loaded_meta' = IF loaded_meta # NoMeta THEN stamped
                                      ELSE loaded_meta
                    /\ persisted' = NotPersisted
                    /\ IF out = "written"
                       THEN /\ \E st \in StorageStates :
                                  session_file' =
                                      DictFile([meta |-> stamped,
                                                storage_state |-> st])
                            /\ lastOp' = "save"
                       ELSE /\ session_file' = IF out = "truncated"
                                               THEN TinyFile ELSE MalformedFile
                            /\ lastOp' = "save_error"

\* SessionManager.ensure_session, lines 113-122: the session validates, or
\* the login does, or the method raises.
EnsureSession ==
    /\ prog = "sm"
    /\ spc = "validate"
    /\ spc' = "closed"
    /\ \E outcome \in {"valid", "login_ok", "login_failed"} :
          IF outcome = "login_failed"
          THEN /\ lastOp' = "none"
               /\ UNCHANGED <<now, session_file, persisted, loaded_meta>>
          ELSE Persist
    /\ UNCHANGED <<raw_state_file, prog, force_login, max_age_minutes,
                   loaded_session_meta, loaded_tokens, tokens, storage_state,
                   context_storage, loaded_storage_state, runs>>
    /\ UNCHANGED xvars
    /\ UNCHANGED lvars
    /\ UNCHANGED hvars

\* A new process: DataExtractor.__init__ or SessionManager.__init__.
NewRun ==
    /\ spc = "closed"
    /\ runs < MaxRuns
    /\ runs' = runs + 1
    /\ spc' = "start"
    /\ prog' \in {"dx", "sm"}
    /\ force_login' \in BOOLEAN
    /\ max_age_minutes' \in IF prog' = "sm" THEN 1..MaxAge ELSE {1}
    /\ loaded_session_meta' = NoMeta
    /\ loaded_tokens' = {}
    /\ tokens' = {}
    /\ storage_state' = NoState
    /\ context_storage' = NoState
    /\ loaded_meta' = NoMeta
    /\ loaded_storage_state' = NoState
    /\ lastOp' = "none"
    /\ UNCHANGED <<now, session_file, raw_state_file, persisted>>
    /\ UNCHANGED xvars
    /\ UNCHANGED lvars
    /\ UNCHANGED hvars

\* Time passes.
Tick ==
    /\ now < MaxTime
    /\ now' = now + 1
    /\ UNCHANGED <<session_file, raw_state_file, prog, spc, force_login,
                   max_age_minutes, loaded_session_meta, loaded_tokens, tokens,
                   storage_state, context_storage, loaded_meta,
                   loaded_storage_state, runs, persisted, lastOp>>
    /\ UNCHANGED xvars
    /\ UNCHANGED lvars
    /\ UNCHANGED hvars

SessionNext ==
    \/ InitBrowser
    \/ Login
    \/ NavigateWizard
    \/ FinalSave
    \/ LaunchAndLoad
    \/ EnsureSession
    \/ NewRun
    \/ Tick

\* The session files a run may find.
S1 == [cookies |-> <<"c1">>, origins |-> <<>>]
S0 == [cookies |-> <<>>, origins |-> <<>>]
Wrapped0 ==
    [version |-> 1, created_at |-> 0, last_verified |-> 0,
     username |-> username, storage_state |-> S1]
Meta0(lv, m) ==
    [version |-> 1, created_at |-> 0, last_verified |-> lv,
     username |-> username, max_age_minutes |-> m]
InitFiles ==
    {NoFile, TinyFile, MalformedFile, NonDictFile}
    \cup {DictFile(d) : d \in
            {S1, S0, [cookies |-> <<"c1">>],
             Wrapped0,
             WithTokens(Wrapped0, {<<"AUTH_TOKEN", V1>>}),
             [Wrapped0 EXCEPT !.storage_state = S0],
             [Wrapped0 EXCEPT !.storage_state = NoState],
             [Wrapped0 EXCEPT !.version = 2],
             [Wrapped0 EXCEPT !.last_verified = NotATime],
             [storage_state |-> S1],
             [version |-> 1],
             [meta |-> NoMeta, storage_state |-> S1],
             [meta |-> Meta0(0, 1), storage_state |-> NoState],
             [meta |-> [created_at |-> 0, last_verified |-> 0],
              storage_state |-> S1]}}
    \cup {DictFile([meta |-> Meta0(lv, m), storage_state |-> s]) :
            lv \in {0, NotATime}, m \in 1..MaxAge, s \in {S1, S0}}

\* The session variables while extract_table_data runs.
SessionIdle ==
    /\ now = 0
    /\ session_file = NoFile
    /\ raw_state_file = NoFile
    /\ prog = "dx"
    /\ spc = "extract"
    /\ force_login = FALSE
    /\ max_age_minutes = 1
    /\ loaded_session_meta = NoMeta
    /\ loaded_tokens = {}
    /\ tokens = {}
    /\ storage_state = NoState
    /\ context_storage = NoState
    /\ loaded_meta = NoMeta
    /\ loaded_storage_state = NoState
    /\ runs = 0
    /\ persisted = NotPersisted
    /\ lastOp = "none"

\* Before the first process starts on some session file.
SessionInit ==
    /\ now = 0
    /\ session_file \in InitFiles
    /\ raw_state_file \in {NoFile, DictFile(S1)}
    /\ prog = "dx"
    /\ spc = "closed"
    /\ force_login = FALSE
    /\ max_age_minutes = 1
    /\ loaded_session_meta = NoMeta
    /\ loaded_tokens = {}
    /\ tokens = {}
    /\ storage_state = NoState
    /\ context_storage = NoState
    /\ loaded_meta = NoMeta
    /\ loaded_storage_state = NoState
    /\ runs = 0
    /\ persisted = NotPersisted
    /\ lastOp = "none"
    /\ site = FreeSite
    /\ ExtractInit
    /\ seen = NoSight
    /\ LoginIdle
    /\ HarvestIdle

(***************************************************************************)
(* The login sequence and the validator, step by step.                     *)
(*                                                                         *)
(* The page answers is_visible for a selector with "visible", "hidden" or  *)
(* "error" (the call raises), and for a form candidate with "hit" (it is   *)
(* visible and the fill or click succeeds), "miss", "error" (is_visible    *)
(* raises) or "stuck" (it is visible and the fill or click raises).        *)
(***************************************************************************)
\* _is_session_valid, lines 206-211, and _validate_logged_in, lines 251-255.
DXIndicators ==
    <<"text=Submit Script", "text=Submit Solution", "text=Product Dashboard",
      "text=user@example.com">>
SMIndicators ==
    <<"text=Submit Script", "text=Submit Solution", "text=user@example.com">>

Indicators == {DXIndicators[i] : i \in DOMAIN DXIndicators}

AllOf(S, o) == [s \in S |-> o]

\* The pages the validator may look at.
Views ==
    {AllOf(Indicators, "hidden"), AllOf(Indicators, "error")}
    \cup {[AllOf(Indicators, "hidden") EXCEPT ![s] = "visible"] :
             s \in Indicators}
    \cup {[AllOf(Indicators, "hidden") EXCEPT
               !["text=Submit Script"] = "error",
               !["text=Submit Solution"] = "visible"]}

\* The for loop of the validator from indicator i on: an invisible
\* indicator and one whose probe raises are passed over, the first visible
\* one ends the loop.
RECURSIVE ProbeAbort(_, _, _)
ProbeAbort(inds, v, i) ==
    IF i > Len(inds) THEN [ret |-> FALSE, probed |-> Len(inds)]
    ELSE IF v[inds[i]] = "visible" THEN [ret |-> TRUE, probed |-> i]
    ELSE IF v[inds[i]] = "error" THEN [ret |-> FALSE, probed |-> i]
    ELSE ProbeAbort(inds, v, i + 1)
RECURSIVE Probe(_, _, _)
Probe(inds, v, i) ==
    IF i > Len(inds) THEN [ret |-> FALSE, probed |-> Len(inds)]
    ELSE IF v[inds[i]] = "visible" THEN [ret |-> TRUE, probed |-> i]
    ELSE Probe(inds, v, i + 1)

IsSessionValid(v) == Probe(DXIndicators, v, 1)

\* The target URL and where a navigation may end.
TargetUrl == "https://app.example/"
Landings == {TargetUrl, "https://sso.example/login"}

\* page.url.startswith(self.url)
StartsWithUrl(u) == u \in {TargetUrl, "https://app.example/dashboard"}

\* _validate_logged_in, line 246: the validator navigates first.
NeedsGotoAlways(u) == TRUE
NeedsGoto(u) == ~StartsWithUrl(u)

\* The candidate selectors of login, lines 310-316, 333-339 and 360-368,
\* and of _perform_login, lines 203-205.
email_selectors ==
    <<"input[name=\"email\"]", "input[type=\"email\"]",
      "input[placeholder=\"Email\"]", "input:below(:text(\"Email\"))",
      "input:below(label:has-text(\"Email\"))">>
password_selectors ==
    <<"input[name=\"password\"]", "input[type=\"password\"]",
      "input[placeholder=\"Password\"]", "input:below(:text(\"Password\"))",
      "input:below(label:has-text(\"Password\"))">>
button_selectors ==
    <<"button[type=\"submit\"]", "button:has-text(\"Login\")",
      "button:has-text(\"Sign In\")", "button:has-text(\"Log In\")",
      "input[type=\"submit\"]", ".login-button", "#login-button">>
sm_email_selectors == <<"input[name='email']", "input[type='email']">>
sm_password_selectors ==
    <<"input[name='password']", "input[type='password']">>
submit_selectors ==
    <<"button[type='submit']", "button:has-text('Login')",
      "button:has-text('Sign In')">>

\* What a page answers for a list of candidates: none matches, the one
\* at index i matches, or the first raises and the second matches.
Miss(sels) == AllOf({sels[i] : i \in DOMAIN sels}, "miss")
HitAt(sels, i) == [Miss(sels) EXCEPT ![sels[i]] = "hit"]
ErrThenHit(sels) ==
    [Miss(sels) EXCEPT ![sels[1]] = "error", ![sels[2]] = "hit"]
\* The first is visible and its fill raises, the second and the last match.
StuckThenHits(sels) ==
    [Miss(sels) EXCEPT ![sels[1]] = "stuck", ![sels[2]] = "hit",
                       ![sels[Len(sels)]] = "hit"]

\* The for loop over candidates from index i on: the index of the first
\* candidate that is visible and is filled (clicked) without an error,
\* 0 when the loop ends without a break.
FirstActingLast(sels, ans, i) ==
    LET hits == {j \in i..Len(sels) : ans[sels[j]] = "hit"}
    IN  IF hits = {} THEN 0 ELSE CHOOSE j \in hits : \A k \in hits : k <= j
RECURSIVE FirstActing(_, _, _)
FirstActing(sels, ans, i) ==
    IF i > Len(sels) THEN 0
    ELSE IF ans[sels[i]] = "hit" THEN i
    ELSE FirstActing(sels, ans, i + 1)

\* login, line 390: for _ in range(6)
poll_rounds == 6

Resources == <<"page", "context", "browser", "playwright">>

\* The resources created by a start that fails at stage, or succeeds.
Created(stage) ==
    CASE stage = "playwright" -> {}
      [] stage = "launch" -> {"playwright"}
      [] stage = "context" -> {"playwright", "browser"}
      [] stage = "page" -> {"playwright", "browser", "context"}
      [] OTHER -> {"playwright", "browser", "context", "page"}

\* Variables of the session store no step of a login assigns.
StoreFrame ==
    /\ UNCHANGED <<prog, force_login, max_age_minutes, runs>>
    /\ UNCHANGED xvars
    /\ UNCHANGED hvars

LoginFrame ==
    /\ StoreFrame
    /\ UNCHANGED ran

\* The same for the steps of run after login.
RunFrame ==
    /\ StoreFrame
    /\ UNCHANGED <<loaded_session_meta, loaded_tokens, storage_state,
                   context_storage, loaded_meta, loaded_storage_state>>

DXFrame ==
    /\ LoginFrame
    /\ UNCHANGED <<loaded_session_meta, loaded_tokens, storage_state,
                   context_storage, loaded_meta, loaded_storage_state>>

\* login returns b to run, lines 1196-1197; the loop counter of login is
\* gone.
LoginReturnsUnchecked(b) ==
    /\ login_ret' = b
    /\ polls' = 0
    /\ spc' = "run.wizard"
    /\ run_ret' = run_ret
LoginReturns(b) ==
    /\ login_ret' = b
    /\ polls' = 0
    /\ IF b = "true"
       THEN spc' = "run.wizard" /\ run_ret' = run_ret
       ELSE spc' = "run.cleanup" /\ run_ret' = "false"

\* An exception reaches the except clause of login, lines 403-405.
LoginPropagates ==
    /\ login_err' = TRUE
    /\ login_ret' = "raised"
    /\ polls' = 0
    /\ spc' = "run.cleanup"
    /\ run_ret' = "false"
LoginCatches ==
    /\ login_err' = TRUE
    /\ LoginReturns("false")

\* run, line 1194: init_browser (lines 241-283).
RunStart ==
    /\ prog = "dx"
    /\ spc = "run"
    /\ \E stage \in {"playwright", "launch", "context", "page", "ok"} :
          /\ held' = Created(stage)
          /\ IF stage = "ok"
             THEN /\ spc' = "login.goto"
                  /\ pages' = pages + 1
                  /\ run_ret' = run_ret
             ELSE /\ spc' = "run.cleanup"
                  /\ pages' = pages
                  /\ run_ret' = "false"
          /\ IF ~force_login /\ stage \notin {"playwright", "launch"}
             THEN LET p == ParseSessionFile(session_file, raw_state_file,
                              loaded_session_meta, loaded_tokens, now)
                  IN  /\ storage_state' = p.ret
                      /\ loaded_session_meta' = p.meta
                      /\ loaded_tokens' = p.tokens
                      /\ context_storage' =
                             IF HasData(p.ret) THEN p.ret ELSE NoState
             ELSE UNCHANGED <<loaded_session_meta, loaded_tokens,
                              storage_state, context_storage>>
    /\ NoStoreChange
    /\ UNCHANGED <<loaded_meta, loaded_storage_state>>
    /\ UNCHANGED <<url, view, acted, form, polls, last_call, valid_seen, login_err,
                   login_ret, released>>
    /\ LoginFrame

\* login, lines 293-296: the navigation to the target.
LoginGotoStraightToForm ==
    /\ prog = "dx"
    /\ spc = "login.goto"
    /\ url' \in Landings
    /\ view' \in Views
    /\ spc' = "login.form"
    /\ UNCHANGED <<polls, login_err, login_ret, run_ret>>
    /\ NoStoreChange
    /\ UNCHANGED <<pages, acted, form, last_call, valid_seen, held, released>>
    /\ DXFrame
\* A plausible slip: the stored session is validated whatever force_login.
LoginGotoValidatesAnyway ==
    /\ prog = "dx"
    /\ spc = "login.goto"
    /\ \E loaded \in BOOLEAN :
          IF loaded
          THEN /\ url' \in Landings
               /\ view' \in Views
               /\ spc' = "login.validate"
               /\ UNCHANGED <<polls, login_err, login_ret, run_ret>>
          ELSE /\ LoginCatches
               /\ UNCHANGED <<url, view>>
    /\ NoStoreChange
    /\ UNCHANGED <<pages, acted, form, last_call, valid_seen, held, released>>
    /\ DXFrame
LoginGoto ==
    /\ prog = "dx"
    /\ spc = "login.goto"
    /\ \E loaded \in BOOLEAN :
          IF loaded
          THEN /\ url' \in Landings
               /\ view' \in Views
               /\ spc' = IF force_login THEN "login.form"
                         ELSE "login.validate"
               /\ UNCHANGED <<polls, login_err, login_ret, run_ret>>
          ELSE /\ LoginCatches
               /\ UNCHANGED <<url, view>>
    /\ NoStoreChange
    /\ UNCHANGED <<pages, acted, form, last_call, valid_seen, held, released>>
    /\ DXFrame

\* A call of _is_session_valid (lines 204-220) by login, at line 300 or at
\* line 391.
LoginValidateSavesAnyway ==
    /\ prog = "dx"
    /\ spc \in {"login.validate", "login.poll"}
    /\ LET r == IsSessionValid(view)
       IN  /\ last_call' = [ret |-> r.ret, probed |-> r.probed, view |-> view,
                             at |-> spc]
           /\ valid_seen' = (valid_seen \/ r.ret)
           /\ spc' = IF spc = "login.validate" THEN "login.validated"
                     ELSE (IF r.ret THEN "login.verified" ELSE "login.sleep")
    /\ NoStoreChange
    /\ UNCHANGED <<url, view, pages, acted, form, polls, login_err, login_ret,
                   run_ret, held, released>>
    /\ DXFrame
LoginValidate ==
    /\ prog = "dx"
    /\ spc \in {"login.validate", "login.poll"}
    /\ LET r == IsSessionValid(view)
       IN  /\ last_call' = [ret |-> r.ret, probed |-> r.probed, view |-> view,
                             at |-> spc]
           /\ valid_seen' = (valid_seen \/ r.ret)
           /\ spc' = IF spc = "login.validate"
                     THEN (IF r.ret THEN "login.validated" ELSE "login.form")
                     ELSE (IF r.ret THEN "login.verified" ELSE "login.sleep")
    /\ NoStoreChange
    /\ UNCHANGED <<url, view, pages, acted, form, polls, login_err, login_ret,
                   run_ret, held, released>>
    /\ DXFrame

\* login, lines 301-304 and 392-397: the tokens are harvested, the session
\* is saved and login returns True.
LoginSucceedsNoSave ==
    /\ prog = "dx"
    /\ spc \in {"login.validated", "login.verified"}
    /\ NoStoreChange
    /\ LoginReturns("true")
    /\ UNCHANGED <<url, view, pages, acted, form, last_call, valid_seen, login_err,
                   held, released>>
    /\ DXFrame
LoginSucceeds ==
    /\ prog = "dx"
    /\ spc \in {"login.validated", "login.verified"}
    /\ HarvestAndSave
    /\ LoginReturns("true")
    /\ UNCHANGED <<url, view, pages, acted, form, last_call, valid_seen, login_err,
                   held, released>>
    /\ DXFrame

\* The login pages: what the candidates of each element answer, the
\* number of visible inputs and of buttons query_selector_all finds (-1
\* when the query or the fill or click that follows raises), and whether
\* page.fill('input[type="password"]') succeeds.
Form(e, p, b, inputs, by_type, buttons) ==
    [email |-> e, password |-> p, button |-> b, inputs |-> inputs,
     by_type |-> by_type, buttons |-> buttons]
Forms ==
    {Form(HitAt(email_selectors, 1), HitAt(password_selectors, 1),
          HitAt(button_selectors, 1), 2, TRUE, 1),
     Form(HitAt(email_selectors, Len(email_selectors)),
          HitAt(password_selectors, Len(password_selectors)),
          HitAt(button_selectors, Len(button_selectors)), 2, TRUE, 1),
     Form(ErrThenHit(email_selectors), ErrThenHit(password_selectors),
          ErrThenHit(button_selectors), 2, TRUE, 1),
     Form(StuckThenHits(email_selectors), StuckThenHits(password_selectors),
          StuckThenHits(button_selectors), 2, TRUE, 1),
     Form(Miss(email_selectors), Miss(password_selectors),
          Miss(button_selectors), 0, FALSE, 0),
     Form(Miss(email_selectors), Miss(password_selectors),
          Miss(button_selectors), 2, TRUE, 1),
     Form(Miss(email_selectors), Miss(password_selectors),
          Miss(button_selectors), 2, FALSE, 1),
     Form(Miss(email_selectors), Miss(password_selectors),
          Miss(button_selectors), 1, FALSE, 1),
     Form(HitAt(email_selectors, 1), Miss(password_selectors),
          HitAt(button_selectors, 1), 1, FALSE, 1),
     Form(Miss(email_selectors), Miss(password_selectors),
          Miss(button_selectors), -1, FALSE, 0),
     Form(HitAt(email_selectors, 1), Miss(password_selectors),
          Miss(button_selectors), -1, FALSE, 0),
     Form(HitAt(email_selectors, 1), HitAt(password_selectors, 1),
          Miss(button_selectors), 2, TRUE, -1)}

\* login, lines 318-330: the candidate that fills the email field; the
\* fallback (one more than the candidates) is the first visible input;
\* 0 when nothing is filled.
FillEmailNoFallback(f) ==
    LET k == FirstActing(email_selectors, f.email, 1)
    IN  IF k > 0 THEN [acts |-> k, raises |-> FALSE]
        ELSE [acts |-> 0, raises |-> FALSE]
FillEmail(f) ==
    LET k == FirstActing(email_selectors, f.email, 1)
    IN  IF k > 0 THEN [acts |-> k, raises |-> FALSE]
        ELSE IF f.inputs < 0 THEN [acts |-> 0, raises |-> TRUE]
        ELSE IF f.inputs >= 1
        THEN [acts |-> Len(email_selectors) + 1, raises |-> FALSE]
        ELSE [acts |-> 0, raises |-> FALSE]

\* login, lines 341-357: the candidate that fills the password field; the
\* fallbacks are input[type="password"] and then the second visible input.
FillPassword(f) ==
    LET k == FirstActing(password_selectors, f.password, 1)
    IN  IF k > 0 THEN [acts |-> k, raises |-> FALSE]
        ELSE IF f.by_type
        THEN [acts |-> Len(password_selectors) + 1, raises |-> FALSE]
        ELSE IF f.inputs < 0 THEN [acts |-> 0, raises |-> TRUE]
        ELSE IF f.inputs >= 2
        THEN [acts |-> Len(password_selectors) + 2, raises |-> FALSE]
        ELSE [acts |-> 0, raises |-> FALSE]

\* login, lines 370-382: the candidate that is clicked; the fallback is the
\* first button of the page.
ClickSubmit(f) ==
    LET k == FirstActing(button_selectors, f.button, 1)
    IN  IF k > 0 THEN [acts |-> k, raises |-> FALSE]
        ELSE IF f.buttons < 0 THEN [acts |-> 0, raises |-> TRUE]
        ELSE IF f.buttons >= 1
        THEN [acts |-> Len(button_selectors) + 1, raises |-> FALSE]
        ELSE [acts |-> 0, raises |-> FALSE]

\* login, lines 310-386: the form is filled and submitted, then login
\* waits for the network to go idle; the first error ends the sequence.
LoginForm ==
    /\ prog = "dx"
    /\ spc = "login.form"
    /\ \E f \in Forms, idle \in BOOLEAN :
          LET e == FillEmail(f)
              p == FillPassword(f)
              c == ClickSubmit(f)
          IN  /\ form' = f
              /\ acted' =
                    [email |-> e.acts,
                     password |-> IF e.raises THEN 0 ELSE p.acts,
                     submit |-> IF e.raises \/ p.raises THEN 0 ELSE c.acts]
              /\ IF e.raises \/ p.raises \/ c.raises \/ ~idle
                 THEN /\ LoginCatches
                      /\ UNCHANGED <<url, view>>
                 ELSE /\ spc' = "login.poll"
                      /\ url' \in Landings
                      /\ view' \in Views
                      /\ UNCHANGED <<polls, login_err, login_ret, run_ret>>
    /\ NoStoreChange
    /\ UNCHANGED <<pages, last_call, valid_seen, held, released>>
    /\ DXFrame

\* login, lines 390-401: the pause after a failed check; after the last
\* round login returns False.
LoginSleepOptimistic ==
    /\ prog = "dx"
    /\ spc = "login.sleep"
    /\ view' \in Views
    /\ IF polls + 1 < poll_rounds
       THEN /\ polls' = polls + 1
            /\ spc' = "login.poll"
            /\ UNCHANGED <<login_ret, run_ret>>
       ELSE LoginReturns("true")
    /\ NoStoreChange
    /\ UNCHANGED <<url, pages, acted, form, last_call, valid_seen, login_err, held,
                   released>>
    /\ DXFrame
LoginSleep ==
    /\ prog = "dx"
    /\ spc = "login.sleep"
    /\ view' \in Views
    /\ IF polls + 1 < poll_rounds
       THEN /\ polls' = polls + 1
            /\ spc' = "login.poll"
            /\ UNCHANGED <<login_ret, run_ret>>
       ELSE LoginReturns("false")
    /\ NoStoreChange
    /\ UNCHANGED <<url, pages, acted, form, last_call, valid_seen, login_err, held,
                   released>>
    /\ DXFrame

\* run, lines 1199-1200: navigate_wizard.
RunWizard ==
    /\ prog = "dx"
    /\ spc = "run.wizard"
    /\ \E outcome \in {"failed", "table", "no_table"} :
          /\ IF outcome = "failed"
             THEN spc' = "run.cleanup" /\ run_ret' = "false"
             ELSE spc' = "run.extract" /\ run_ret' = run_ret
          /\ IF outcome = "table" THEN HarvestAndSave ELSE NoStoreChange
          /\ ran' = [ran EXCEPT !.wizard = IF outcome = "failed" THEN "false"
                                           ELSE "true"]
    /\ UNCHANGED <<url, view, pages, acted, form, polls, last_call, valid_seen,
                   login_err, login_ret, held, released>>
    /\ RunFrame

\* What the calls of lines 1202-1216 returned, by outcome.
Ran(outcome, r) ==
    [r EXCEPT
       !.products = CASE outcome = "raises" -> "none"
                      [] outcome = "no_products" -> "empty"
                      [] OTHER -> "some",
       !.written = outcome \in {"written", "save_skipped"},
       !.final = CASE outcome = "written" -> "ran"
                   [] outcome = "save_skipped" -> "raised"
                   [] OTHER -> "none"]

\* run, lines 1202-1219: the extraction, the data file and the final save
\* of the session.
\* A plausible slip: an empty list of products is not treated as a failure.
RunExtractAnyProducts ==
    /\ prog = "dx"
    /\ spc = "run.extract"
    /\ spc' = "run.cleanup"
    /\ \E outcome \in {"raises", "no_products", "not_written", "written",
                        "save_skipped"} :
          /\ ran' = Ran(outcome, ran)
          /\ IF outcome = "written"
             THEN run_ret' = "true" /\ HarvestAndSave
             ELSE IF outcome \in {"save_skipped", "no_products"}
             THEN run_ret' = "true" /\ NoStoreChange
             ELSE run_ret' = "false" /\ NoStoreChange
    /\ UNCHANGED <<url, view, pages, acted, form, polls, last_call, valid_seen,
                   login_err, login_ret, held, released>>
    /\ RunFrame
RunExtract ==
    /\ prog = "dx"
    /\ spc = "run.extract"
    /\ spc' = "run.cleanup"
    /\ \E outcome \in {"raises", "no_products", "not_written", "written",
                        "save_skipped"} :
          /\ ran' = Ran(outcome, ran)
          /\ IF outcome = "written"
             THEN run_ret' = "true" /\ HarvestAndSave
             ELSE IF outcome = "save_skipped"
             THEN run_ret' = "true" /\ NoStoreChange
             ELSE run_ret' = "false" /\ NoStoreChange
    /\ UNCHANGED <<url, view, pages, acted, form, polls, last_call, valid_seen,
                   login_err, login_ret, held, released>>
    /\ RunFrame

\* run, lines 1224-1235: page, context, browser and driver are closed in
\* this order inside one try block; a close that raises ends the block.
\* The first three are known to run only when init_browser returned.
RunCleanup ==
    /\ prog = "dx"
    /\ spc = "run.cleanup"
    /\ spc' = "run.done"
    /\ LET order == IF "page" \in held THEN Resources
                    ELSE IF "playwright" \in held THEN <<"playwright">>
                    ELSE <<>>
       IN  \E k \in 0..Len(order) :
              /\ released' = SubSeq(order, 1, k)
              /\ held' = held \ Range(SubSeq(order, 1, k))
    /\ NoStoreChange
    /\ UNCHANGED <<url, view, pages, acted, form, polls, last_call, valid_seen,
                   login_err, login_ret, run_ret>>
    /\ DXFrame

SMFrame ==
    /\ LoginFrame
    /\ UNCHANGED <<raw_state_file, loaded_session_meta, loaded_tokens, tokens,
                   storage_state>>

SMNoStoreChange ==
    /\ lastOp' = "none"
    /\ UNCHANGED <<now, session_file, persisted>>

\* An exception leaves ensure_session and reaches cli_main's finally.
EnsureReturnsAnyway ==
    /\ login_ret' = "true"
    /\ spc' = "cli.close"
EnsureRaises ==
    /\ login_ret' = "raised"
    /\ spc' = "cli.close"

\* ensure_session, lines 104-111: _launch, _try_load_session and the first
\* page.
EnsureStart ==
    /\ prog = "sm"
    /\ spc = "ensure"
    /\ \E stage \in {"playwright", "launch", "context", "page", "ok"} :
          /\ held' = Created(stage)
          /\ IF stage = "ok"
             THEN /\ spc' = "ensure.validate"
                  /\ pages' = pages + 1
                  /\ login_ret' = login_ret
             ELSE /\ EnsureRaises
                  /\ pages' = pages
          /\ IF stage \in {"page", "ok"}
             THEN /\ context_storage' = loaded_storage_state
                  /\ IF ~force_login
                     THEN LET l == TryLoadSession(session_file, loaded_meta,
                                       loaded_storage_state, now)
                          IN  /\ loaded_meta' = l.meta
                              /\ loaded_storage_state' = l.storage
                     ELSE UNCHANGED <<loaded_meta, loaded_storage_state>>
             ELSE UNCHANGED <<context_storage, loaded_meta,
                              loaded_storage_state>>
    /\ SMNoStoreChange
    /\ UNCHANGED <<url, view, acted, form, polls, last_call, valid_seen, login_err,
                   run_ret, released>>
    /\ SMFrame

\* A call of _validate_logged_in (lines 244-262) by ensure_session, at
\* line 113 or at line 119; self._page is set at both.  A page that is not
\* at the target is sent there first, and an error of that navigation is
\* passed over.
EnsureValidate ==
    /\ prog = "sm"
    /\ spc \in {"ensure.validate", "ensure.revalidate"}
    /\ IF NeedsGoto(url)
       THEN \E loaded \in BOOLEAN :
               /\ url' \in IF loaded THEN Landings ELSE {url}
               /\ view' \in Views
       ELSE UNCHANGED <<url, view>>
    /\ LET r == Probe(SMIndicators, view', 1)
       IN  /\ last_call' = [ret |-> r.ret, probed |-> r.probed, view |-> view',
                             at |-> spc]
           /\ valid_seen' = (valid_seen \/ r.ret)
           /\ IF r.ret
              THEN spc' = "ensure.persist" /\ login_ret' = login_ret
              ELSE IF spc = "ensure.validate"
              THEN spc' = "ensure.login" /\ login_ret' = login_ret
              ELSE EnsureRaises
    /\ SMNoStoreChange
    /\ UNCHANGED <<pages, acted, form, polls, login_err, run_ret, held, released>>
    /\ UNCHANGED <<context_storage, loaded_meta, loaded_storage_state>>
    /\ SMFrame

\* ensure_session, lines 114-115 and 121-122: _persist and the return.
EnsurePersist ==
    /\ prog = "sm"
    /\ spc = "ensure.persist"
    /\ spc' = "cli.close"
    /\ login_ret' = "true"
    /\ Persist
    /\ UNCHANGED <<url, view, pages, acted, form, polls, last_call, valid_seen,
                   login_err, run_ret, held, released>>
    /\ UNCHANGED <<context_storage, loaded_storage_state>>
    /\ SMFrame

\* The login pages SessionManager may meet; generic tells whether
\* page.click('button') succeeds.
SMForm(e, p, b, generic) ==
    [email |-> e, password |-> p, submit |-> b, generic |-> generic]
SMForms ==
    {SMForm(HitAt(sm_email_selectors, 1), HitAt(sm_password_selectors, 1),
            HitAt(submit_selectors, 1), TRUE),
     SMForm(ErrThenHit(sm_email_selectors), ErrThenHit(sm_password_selectors),
            ErrThenHit(submit_selectors), TRUE),
     SMForm(StuckThenHits(sm_email_selectors),
            StuckThenHits(sm_password_selectors),
            StuckThenHits(submit_selectors), TRUE),
     SMForm(HitAt(sm_email_selectors, Len(sm_email_selectors)),
            HitAt(sm_password_selectors, Len(sm_password_selectors)),
            HitAt(submit_selectors, Len(submit_selectors)), FALSE),
     SMForm(Miss(sm_email_selectors), HitAt(sm_password_selectors, 1),
            HitAt(submit_selectors, 1), TRUE),
     SMForm(HitAt(sm_email_selectors, 1), Miss(sm_password_selectors),
            HitAt(submit_selectors, 1), TRUE),
     SMForm(HitAt(sm_email_selectors, 1), HitAt(sm_password_selectors, 1),
            Miss(submit_selectors), TRUE),
     SMForm(HitAt(sm_email_selectors, 1), HitAt(sm_password_selectors, 1),
            Miss(submit_selectors), FALSE)}

\* _perform_login, lines 196-242: a new page, the navigation, the two
\* fields and the submit control; a field that no candidate fills, a form
\* that cannot be submitted and an error of the navigation or of the
\* waits raise.
PerformLogin ==
    /\ prog = "sm"
    /\ spc = "ensure.login"
    /\ pages' = pages + 1
    /\ \E loaded \in BOOLEAN, f \in SMForms, idle \in BOOLEAN :
          LET e == FirstActing(sm_email_selectors, f.email, 1)
              p == FirstActing(sm_password_selectors, f.password, 1)
              s == FirstActing(submit_selectors, f.submit, 1)
              submitted == s > 0 \/ f.generic
          IN  IF ~loaded
              THEN /\ EnsureRaises
                   /\ login_err' = TRUE
                   /\ UNCHANGED <<url, view, acted, form>>
              ELSE /\ url' \in Landings
                   /\ view' \in Views
                   /\ form' = f
                   /\ acted' =
                         [email |-> e,
                          password |-> IF e = 0 THEN 0 ELSE p,
                          submit |-> IF e = 0 \/ p = 0 THEN 0
                                     ELSE IF s > 0 THEN s
                                     ELSE IF f.generic
                                     THEN Len(submit_selectors) + 1 ELSE 0]
                   /\ IF e > 0 /\ p > 0 /\ submitted /\ idle
                      THEN /\ spc' = "ensure.revalidate"
                           /\ UNCHANGED <<login_err, login_ret>>
                      ELSE /\ EnsureRaises
                           /\ login_err' = TRUE
    /\ SMNoStoreChange
    /\ UNCHANGED <<polls, last_call, valid_seen, run_ret, held, released>>
    /\ UNCHANGED <<context_storage, loaded_meta, loaded_storage_state>>
    /\ SMFrame

\* cli_main, lines 309-318, and close, lines 124-134: page, context and
\* browser are closed in this order inside a try block whose finally
\* clause stops the driver.
CliClose ==
    /\ prog = "sm"
    /\ spc = "cli.close"
    /\ spc' = "cli.done"
    /\ LET order == SelectSeq(<<"page", "context", "browser">>,
                              LAMBDA r : r \in held)
       IN  \E k \in 0..Len(order), stopped \in BOOLEAN :
              LET done == IF "playwright" \in held /\ stopped
                          THEN Append(SubSeq(order, 1, k), "playwright")
                          ELSE SubSeq(order, 1, k)
              IN  /\ released' = done
                  /\ held' = held \ Range(done)
                  /\ run_ret' =
                        IF \/ login_ret = "raised"
                           \/ k < Len(order)
                           \/ ("playwright" \in held /\ ~stopped)
                        THEN "raised" ELSE "true"
    /\ SMNoStoreChange
    /\ UNCHANGED <<url, view, pages, acted, form, polls, last_call, valid_seen,
                   login_err, login_ret>>
    /\ UNCHANGED <<context_storage, loaded_meta, loaded_storage_state>>
    /\ SMFrame

LoginNext ==
    \/ RunStart
    \/ LoginGoto
    \/ LoginValidate
    \/ LoginSucceeds
    \/ LoginForm
    \/ LoginSleep
    \/ RunWizard
    \/ RunExtract
    \/ RunCleanup
    \/ EnsureStart
    \/ EnsureValidate
    \/ EnsurePersist
    \/ PerformLogin
    \/ CliClose

\* A run of DataExtractor or of SessionManager is about to start.
LoginInit ==
    /\ now = MaxTime
    /\ prog \in {"dx", "sm"}
    /\ session_file \in
          {NoFile,
           IF prog = "dx" THEN DictFile(Wrapped0)
           ELSE DictFile([meta |-> Meta0(MaxTime, 1), storage_state |-> S1]),
           IF prog = "dx" THEN DictFile(Wrapped0)
           ELSE DictFile([meta |-> Meta0(0, 1), storage_state |-> S1])}
    /\ raw_state_file = NoFile
    /\ spc = IF prog = "dx" THEN "run" ELSE "ensure"
    /\ force_login \in BOOLEAN
    /\ max_age_minutes = 1
    /\ loaded_session_meta = NoMeta
    /\ loaded_tokens = {}
    /\ tokens = {}
    /\ storage_state = NoState
    /\ context_storage = NoState
    /\ loaded_meta = NoMeta
    /\ loaded_storage_state = NoState
    /\ runs = 0
    /\ persisted = NotPersisted
    /\ lastOp = "none"
    /\ site = FreeSite
    /\ ExtractInit
    /\ seen = NoSight
    /\ LoginIdle
    /\ HarvestIdle

(***************************************************************************)
(* The storage poll and the token harvest, step by step.                   *)
(*                                                                         *)
(* login (lines 394-395), navigate_wizard (684-685) and run (1212-1213)    *)
(* call _poll_for_storage and then _extract_tokens.  Time is counted in    *)
(* polling intervals.                                                      *)
(***************************************************************************)
MaxTimeout == 3    \* largest timeout of a poll, in polling intervals

\* What sessionStorage may hold.
SessionStorages == Mappings({<<"SESSION_ID", V1>>})

\* What the page holds when a script is evaluated in it; Raised stands for
\* an evaluation that raises.
PageStores ==
    [ls : LocalStorages \cup {Raised}, win : WindowGlobals \cup {Raised},
     ss : SessionStorages]

\* _poll_for_storage, line 225.
EmptyCapture == [local |-> {}, session |-> {}]
\* _poll_for_storage, line 226.
patterns == {"token", "auth", "session", "jwt"}
\* _poll_for_storage, line 234.
HasPattern(c) ==
    \E k \in Names(c.local) \cup Names(c.session) :
        MarkersIn(k) \cap patterns # {}

\* The variables of the session store but the tokens.
StoreButTokens ==
    <<now, session_file, raw_state_file, prog, spc, force_login,
      max_age_minutes, loaded_session_meta, loaded_tokens, storage_state,
      context_storage, loaded_meta, loaded_storage_state, runs, persisted,
      lastOp>>

\* _poll_for_storage, line 227: the test of the while loop.
PollTest ==
    /\ hpc = "poll.test"
    /\ hpc' = IF loop_time < deadline THEN "poll.evaluate" ELSE "harvest"
    /\ UNCHANGED <<client_storage, deadline, loop_time, captured, candidates>>
    /\ UNCHANGED <<xvars, svars, lvars>>

\* _poll_for_storage, lines 228-237: one evaluation in the page; an error
\* is passed over.
PollEvaluate ==
    /\ hpc = "poll.evaluate"
    /\ \E o \in PageStores :
          /\ client_storage' = o
          /\ IF o.ls = Raised
             THEN /\ captured' = captured
                  /\ hpc' = "poll.sleep"
             ELSE /\ captured' = [local |-> o.ls, session |-> o.ss]
                  /\ hpc' = IF HasPattern(captured') THEN "harvest"
                            ELSE "poll.sleep"
    /\ UNCHANGED <<deadline, loop_time, candidates>>
    /\ UNCHANGED <<xvars, svars, lvars>>

\* _poll_for_storage, line 238: the sleep of one interval; the loop's clock
\* has advanced by the interval at least when the loop goes on.
PollSleepNoAdvance ==
    /\ hpc = "poll.sleep"
    /\ hpc' = "poll.test"
    /\ UNCHANGED <<client_storage, deadline, loop_time, captured, candidates>>
    /\ UNCHANGED <<xvars, svars, lvars>>
PollSleep ==
    /\ hpc = "poll.sleep"
    /\ \E d \in 1..2 : loop_time' = loop_time + d
    /\ hpc' = "poll.test"
    /\ UNCHANGED <<client_storage, deadline, captured, candidates>>
    /\ UNCHANGED <<xvars, svars, lvars>>

\* _extract_tokens, lines 181-202, on the page as it is when the poll has
\* returned.
Harvest ==
    /\ hpc = "harvest"
    /\ \E o \in PageStores :
          /\ client_storage' = o
          /\ candidates' = ExtractTokens(o)
          /\ tokens' = Update(tokens, ExtractTokens(o))
    /\ hpc' = "harvested"
    /\ UNCHANGED <<deadline, loop_time, captured>>
    /\ UNCHANGED <<xvars, StoreButTokens, lvars>>

StorageNext == PollTest \/ PollEvaluate \/ PollSleep \/ Harvest

StorageInit ==
    /\ site = FreeSite
    /\ ExtractInit
    /\ seen = NoSight
    /\ SessionIdle
    /\ LoginIdle
    /\ client_storage = [ls |-> {}, win |-> {}, ss |-> {}]
    /\ deadline \in 0..MaxTimeout
    /\ loop_time = 0
    /\ captured = EmptyCapture
    /\ candidates = {}
    /\ hpc = "poll.test"

(***************************************************************************)
(* Specifications.                                                         *)
(***************************************************************************)
\* The engine on a page that may show and do anything.
FreeInit ==
    /\ site = FreeSite
    /\ ExtractInit
    /\ seen = NoSight
    /\ SessionIdle /\ LoginIdle /\ HarvestIdle
Spec == FreeInit /\ [][ExtractNext]_vars
FairSpec == Spec /\ WF_vars(ExtractNext)

\* The engine on a site that serves a dataset.
DataInit ==
    /\ site \in DataSites
    /\ ExtractInit
    /\ seen = NoSight
    /\ SessionIdle /\ LoginIdle /\ HarvestIdle
DataSpec == DataInit /\ [][ExtractNext]_vars
FairDataSpec == DataSpec /\ WF_vars(ExtractNext)

\* The engine on the free page without a load-more control, with the history
\* of what each step read.
WatchInit ==
    /\ site = QuietSite
    /\ ExtractInit
    /\ seen = Sight("start", NoMatch, <<>>, 0, ExtractError)
    /\ SessionIdle /\ LoginIdle /\ HarvestIdle
WatchSpec == WatchInit /\ [][ExtractNext]_vars

\* Runs of DataExtractor and of SessionManager over one session file.
SessionSpec == SessionInit /\ [][SessionNext]_vars

\* One run of DataExtractor or of SessionManager, the login step by step.
LoginSpec == LoginInit /\ [][LoginNext]_vars

\* One poll of the page's storage followed by one harvest of the tokens;
\* every call into the page returns or raises, so a step that can be taken
\* is taken.
StorageSpec == StorageInit /\ [][StorageNext]_vars
FairStorageSpec == StorageSpec /\ WF_vars(StorageNext)

(***************************************************************************)
(* Properties of the paginated extraction engine.                          *)
(***************************************************************************)
Keys(rows) == {RowKey(rows[i]) : i \in 1..Len(rows)}

DistinctKeys(rows) ==
    \A i, j \in 1..Len(rows) : i # j => RowKey(rows[i]) # RowKey(rows[j])

InLoop == xpc \in {"next", "more", "scroll"}

\* The scenario of C1: a dataset of rows with distinct identities, one chunk
\* per view, a next control that is disabled on the last view, and the
\* "Showing X of N products" text.
PagedScenario ==
    /\ site.kind = "data"
    /\ site.mode = "paged"
    /\ site.adv = "next"
    /\ site.atEnd \in {"disabled", "aria"}
    /\ site.ind \in {"page", "cum"}
    /\ DistinctKeys(site.data)

\* C1 as stated: in the paged scenario extract_table_data returns all N rows
\* of the dataset and never more than N rows.
C1_AllRowsNeverMore ==
    (PagedScenario /\ xpc = "done") =>
        /\ result = site.data
        /\ Len(result) <= Len(site.data)

\* C1, amended: in the paged scenario the function returns; it starts at most
\* one loop iteration per view; with N >= 1 it returns exactly the N rows of
\* the dataset in served order, and with N = 0 the single placeholder row.
C1_PagedDataset ==
    /\ PagedScenario => <>(xpc = "done")
    /\ [](PagedScenario => pagination_attempts <= NumViews(site))
    /\ []((PagedScenario /\ xpc = "done") =>
             result = IF Len(site.data) >= 1 THEN site.data
                      ELSE <<PlaceholderRow>>)

C1_Witness ==
    /\ PagedScenario
    /\ xpc = "done"
    /\ NumViews(site) >= 3
    /\ Len(site.data) = MaxN
    /\ result = site.data

\* The rows of s whose identity key no earlier row of s has, in order.
FirstByKey(s) ==
    Pick(s, {i \in 1..Len(s) :
                \A j \in 1..(i - 1) : RowKey(s[j]) # RowKey(s[i])})

\* The rows the data site has served in the views rendered so far.
Served == SubSeq(site.data, 1, ServedUpTo(site, pos))

\* C2: over the initial extraction and every later pass, the collected list
\* is exactly the first row of each identity key among the rows served so
\* far, in first-seen order; no two collected rows share an identity key and
\* collected_keys holds exactly the keys of the collected rows.
C2_Dedup ==
    xpc \notin {"start", "initial"} =>
        /\ all_products = IF site.data = <<>> THEN <<PlaceholderRow>>
                          ELSE FirstByKey(Served)
        /\ DistinctKeys(all_products)
        /\ collected_keys = Keys(all_products)

\* Pass 2 repeated the rows of pass 1 and brought one new row.
C2_Witness ==
    /\ site.kind = "data"
    /\ site.mode = "cum"
    /\ pos = 2
    /\ Len(ViewTable(site, 1)) = PageSize
    /\ Len(ViewTable(site, 2)) = PageSize + 1
    /\ DistinctKeys(site.data)
    /\ xpc = "done"
    /\ all_products = ViewTable(site, 1) \o <<site.data[PageSize + 1]>>

\* C3: extract_table_data never returns an empty list, and from the first
\* extraction on the collected list is never empty.
C3_NonEmpty ==
    /\ xpc = "done" => result # <<>>
    /\ xpc \notin {"start", "initial", "done"} => all_products # <<>>

\* Neither a table nor a repeating group was found: one placeholder row.
C3_Witness ==
    /\ xpc = "done"
    /\ result = <<PlaceholderRow>>

\* C4 as stated: whenever totalExpected is known the loop has stopped once
\* the collected count reached it, and the returned list is the first
\* totalExpected collected rows.
C4_TrimToTotal ==
    /\ (InLoop /\ total_expected # None) => Len(all_products) < total_expected
    /\ (xpc = "done" /\ total_expected # None) =>
          /\ Len(result) <= total_expected
          /\ result = Prefix(all_products, total_expected)

\* C4, amended: whenever totalExpected is known the loop has stopped once the
\* collected count reached it; when it is known and not zero the returned
\* list is the first totalExpected collected rows; when it is zero nothing is
\* trimmed and the collected list is returned whole.
C4_TrimToPositiveTotal ==
    /\ (InLoop /\ total_expected # None) => Len(all_products) < total_expected
    /\ (xpc = "done" /\ TruthyInt(total_expected)) =>
          /\ Len(result) <= total_expected
          /\ result = Prefix(all_products, total_expected)
    /\ (xpc = "done" /\ total_expected = 0 /\ stopWhy # "failed") =>
          result = all_products

\* A surplus was collected and trimmed.
C4_Witness ==
    /\ xpc = "done"
    /\ TruthyInt(total_expected)
    /\ Len(all_products) > total_expected
    /\ result = Prefix(all_products, total_expected)

\* C5: the loop starts another iteration only from a strategy that has just
\* added a new distinct row; an iteration without progress ends the loop.
C5_NoProgressStops ==
    [][(InLoop /\ xpc' = "head") => Len(all_products') > Len(all_products)]_vars

\* C6: the loop terminates on every page: the function returns, the attempt
\* counter grows with every iteration started and never passes the ceiling by
\* more than one, and a run stopped by the ceiling returns the collected rows.
C6_Terminates ==
    /\ <>(xpc = "done")
    /\ [](pagination_attempts <= max_pages + 1)
    /\ [][(xpc = "head" /\ xpc' # "trim") =>
              pagination_attempts' = pagination_attempts + 1]_vars
    /\ []((xpc = "done" /\ stopWhy = "ceiling") =>
              (result = all_products /\ result # <<>>))

C6_Witness ==
    /\ xpc = "done"
    /\ stopWhy = "ceiling"
    /\ pagination_attempts = max_pages + 1
    /\ result = all_products

(***************************************************************************)
(* Properties of the session store.                                        *)
(***************************************************************************)
\* The step in which init_browser reads the session file.
ParseStep == prog = "dx" /\ spc = "start" /\ spc' = "login" /\ ~force_login

\* A step in which _save_session (or _persist) completes its write.
SaveStep == spc' # spc /\ lastOp' = "save"

FileTokens(f) ==
    IF f.kind = "dict" /\ "tokens" \in DOMAIN f.data THEN f.data.tokens ELSE {}

FileMeta(f) ==
    IF f.kind # "dict" THEN NoMeta
    ELSE IF "meta" \in DOMAIN f.data THEN f.data.meta
    ELSE f.data

HasCreatedAt(f) == "created_at" \in DOMAIN FileMeta(f)

\* C7: when _parse_session_file reads a file that the last completed
\* _save_session wrote, it returns the storage state that was written and
\* loads a token mapping that contains every token that was written.
C7_RoundTrip ==
    [][(ParseStep /\ persisted.ok) =>
          /\ storage_state' = persisted.storage
          /\ persisted.tokens \subseteq loaded_tokens']_vars

\* A second process has read back cookies and tokens saved by the first.
C7_Witness ==
    /\ prog = "dx" /\ spc = "login" /\ ~force_login
    /\ persisted.ok
    /\ HasData(persisted.storage)
    /\ storage_state = persisted.storage
    /\ persisted.tokens # {}
    /\ loaded_tokens = persisted.tokens

\* C8: after every completed _save_session the tokens in the session file
\* contain every token name of the bundle loaded by this run and every
\* token harvested in this run.
C8_TokensMerged ==
    [][(SaveStep /\ prog = "dx") =>
          /\ Names(loaded_tokens) \subseteq Names(FileTokens(session_file'))
          /\ tokens' \subseteq FileTokens(session_file')]_vars

\* C9: every completed persist writes last_verified = now, and created_at
\* equal to the created_at of the bundle that was in the file, if any, and
\* to now otherwise.
C9_CreatedAtKept ==
    [][SaveStep =>
          /\ FileMeta(session_file').last_verified = now'
          /\ IF HasCreatedAt(session_file)
             THEN FileMeta(session_file').created_at =
                      FileMeta(session_file).created_at
             ELSE FileMeta(session_file').created_at \in now..now']_vars

\* The steps in which a process decides whether to use the stored session.
LoadStepDX == prog = "dx" /\ spc = "start" /\ spc' = "login"
LoadStepSM == prog = "sm" /\ spc = "start" /\ spc' = "validate"

\* A file with a storage_state key and no top-level cookies or origins.
IsWrapped(f) ==
    /\ f.kind = "dict"
    /\ "storage_state" \in DOMAIN f.data
    /\ "cookies" \notin DOMAIN f.data
    /\ "origins" \notin DOMAIN f.data

\* A SessionManager bundle: all metadata and a storage state that is not null.
IsBundle(f) ==
    /\ IsWrapped(f)
    /\ "meta" \in DOMAIN f.data
    /\ DOMAIN f.data.meta = SessionMetaFields
    /\ f.data.storage_state # NoState

\* The last_verified a program finds in the file: DataExtractor keeps it
\* at the top level, SessionManager under meta.
StoredLastVerified(f) ==
    IF prog = "dx" THEN TimeGet(f.data, "last_verified")
    ELSE IF "meta" \in DOMAIN f.data THEN TimeGet(f.data.meta, "last_verified")
    ELSE None
StoredMaxAge(f) ==
    IF IsBundle(f) THEN f.data.meta.max_age_minutes ELSE max_age_minutes
HasAge(f) == IsWrapped(f) /\ StoredLastVerified(f) \notin {None, NotATime}

\* C10 as stated: a stored bundle one minute older than the maximum age is
\* not used, one a minute younger is used, and a bundle that is used has a
\* storage state and an age of at most the maximum.
C10_AgeInvalidation ==
    [][((LoadStepDX \/ LoadStepSM) /\ HasAge(session_file)) =>
          LET age == now - StoredLastVerified(session_file)
              used == IF prog = "dx" THEN context_storage' # NoState
                      ELSE loaded_storage_state' # NoState
          IN  /\ age = StoredMaxAge(session_file) + 1 => ~used
              /\ (/\ age = StoredMaxAge(session_file) - 1
                  /\ ~force_login
                  /\ prog = "sm" => IsBundle(session_file)
                  /\ HasData(session_file.data.storage_state)) => used
              /\ used => /\ session_file.data.storage_state # NoState
                         /\ age <= StoredMaxAge(session_file)]_vars

\* C10 amended: SessionManager loads a stored bundle exactly when
\* force_login is off, the bundle has all its metadata and a storage state
\* that is not null, and its age, if last_verified parses, is at most the
\* max_age_minutes stored in it; DataExtractor seeds the context with the
\* stored storage state exactly when force_login is off and that state has
\* cookies or origins, whatever its age.
C10_AgePolicy ==
    [][/\ LoadStepSM =>
            (loaded_storage_state' # NoState <=>
                /\ ~force_login
                /\ IsBundle(session_file)
                /\ \/ ~HasAge(session_file)
                   \/ now - StoredLastVerified(session_file)
                          <= session_file.data.meta.max_age_minutes)
       /\ (LoadStepSM /\ loaded_storage_state' # NoState) =>
            loaded_storage_state' = session_file.data.storage_state
       /\ (LoadStepDX /\ IsWrapped(session_file)) =>
            /\ context_storage' # NoState <=>
                  (~force_login /\ HasData(session_file.data.storage_state))
            /\ context_storage' # NoState =>
                  context_storage' = session_file.data.storage_state]_vars

\* SessionManager has just ignored a bundle one minute too old.
C10_Witness ==
    /\ prog = "sm" /\ spc = "validate" /\ ~force_login
    /\ IsBundle(session_file)
    /\ HasAge(session_file)
    /\ now - StoredLastVerified(session_file)
           = session_file.data.meta.max_age_minutes + 1
    /\ loaded_storage_state = NoState
    /\ lastOp = "none"

\* C11 as stated: _parse_session_file returns None for a missing file, for
\* malformed JSON, for a version other than 1 and for a storage state
\* without cookies and origins.
C11_LoadReturnsNone ==
    [][(/\ ParseStep
        /\ \/ session_file.kind \in {"missing", "malformed"}
           \/ /\ IsWrapped(session_file)
              /\ \/ /\ "version" \in DOMAIN session_file.data
                    /\ session_file.data.version # 1
                 \/ ~HasData(session_file.data.storage_state))
          => storage_state' = NoState]_vars

\* C11 amended: _parse_session_file returns None exactly when the file is
\* missing or shorter than 5 bytes and the raw state file holds no cookies
\* or origins, when it is not a JSON object, and when it is an object
\* without cookies, origins and a storage state that is not null; a
\* present raw state file is returned in place of a missing session file,
\* the version is not looked at, and an empty storage state is returned
\* as it is.
C11_LoadNone ==
    [][ParseStep =>
          /\ storage_state' = NoState <=>
                \/ /\ session_file.kind \in {"missing", "tiny"}
                   /\ ~(raw_state_file.kind = "dict"
                           /\ HasData(raw_state_file.data))
                \/ session_file.kind \in {"malformed", "nondict"}
                \/ /\ session_file.kind = "dict"
                   /\ "cookies" \notin DOMAIN session_file.data
                   /\ "origins" \notin DOMAIN session_file.data
                   /\ \/ "storage_state" \notin DOMAIN session_file.data
                      \/ session_file.data.storage_state = NoState
          /\ (/\ session_file.kind \in {"missing", "tiny"}
              /\ storage_state' # NoState) =>
                 storage_state' = raw_state_file.data
          /\ IsWrapped(session_file) =>
                 storage_state' = session_file.data.storage_state]_vars

\* init_browser has read malformed JSON and got None.
C11_Witness ==
    /\ prog = "dx" /\ spc = "login" /\ ~force_login
    /\ session_file.kind = "malformed"
    /\ storage_state = NoState
    /\ loaded_session_meta = NoMeta

\* C12: on a bare {cookies, origins} object _parse_session_file returns the
\* object and sets created_at and last_verified of the loaded metadata to
\* the time of the read.
C12_LegacyAccepted ==
    [][(/\ ParseStep
        /\ session_file.kind = "dict"
        /\ {"cookies", "origins"} \subseteq DOMAIN session_file.data) =>
          /\ storage_state' = session_file.data
          /\ loaded_session_meta' = [created_at |-> now, last_verified |-> now]
      ]_vars

\* init_browser has read a legacy file with a cookie and seeds the context.
C12_Witness ==
    /\ prog = "dx" /\ spc = "login" /\ ~force_login
    /\ session_file = DictFile(S1)
    /\ storage_state = S1
    /\ context_storage = S1
    /\ loaded_session_meta = [created_at |-> now, last_verified |-> now]

C14_AtomicWrite ==
    [][session_file' # session_file => session_file'.kind = "dict"]_vars

(***************************************************************************)
(* Properties of the validator and of the login sequence.                  *)
(***************************************************************************)
\* A step that is a call of the validator.
DXValidateStep ==
    /\ prog = "dx"
    /\ spc \in {"login.validate", "login.poll"}
    /\ spc' # spc
SMValidateStep ==
    /\ prog = "sm"
    /\ spc \in {"ensure.validate", "ensure.revalidate"}
    /\ spc' # spc

VisibleAt(v, inds) == {i \in DOMAIN inds : v[inds[i]] = "visible"}
Least(S) == CHOOSE i \in S : \A j \in S : i <= j

\* The verdict on page v over the indicators inds, as recorded in c.
Verdict(c, v, inds) ==
    /\ c.view = v
    /\ c.ret = (VisibleAt(v, inds) # {})
    /\ c.ret => c.probed = Least(VisibleAt(v, inds))
    /\ ~c.ret => c.probed = Len(inds)

NoForm == [email |-> 0, password |-> 0, submit |-> 0]

\* C15: a call of the validator probes the indicators in order up to the
\* first visible one and returns True there; it returns False when no
\* indicator is visible, a probe that raises counting as not visible; no
\* error leaves the call.
C15_Validator ==
    [][/\ DXValidateStep =>
             /\ Verdict(last_call', view, DXIndicators)
             /\ spc' \in IF last_call'.ret
                        THEN {"login.validated", "login.verified"}
                        ELSE {"login.form", "login.sleep"}
             /\ UNCHANGED <<login_err, login_ret, run_ret>>
       /\ SMValidateStep =>
             /\ Verdict(last_call', view', SMIndicators)
             /\ last_call'.ret => spc' = "ensure.persist"
             /\ UNCHANGED login_err
             /\ login_ret' = "raised" =>
                    (~last_call'.ret /\ spc = "ensure.revalidate")]_vars

\* The first probe raised, the second indicator was visible: True.
C15_Witness ==
    /\ prog = "dx"
    /\ spc = "login.validated"
    /\ last_call.ret
    /\ last_call.probed = 2
    /\ last_call.view["text=Submit Script"] = "error"
    /\ last_call.view["text=Submit Solution"] = "visible"

\* C16 as stated: a call of the validator does not navigate, creates no
\* page and changes neither the page, the session file nor the tokens.
C16_ValidatorPure ==
    [][(DXValidateStep \/ SMValidateStep) =>
          UNCHANGED <<url, view, pages, session_file, raw_state_file,
                      tokens>>]_vars

\* C16 amended: _is_session_valid changes nothing and gives the verdict of
\* its last call again when the page is as that call saw it;
\* _validate_logged_in creates no page and changes neither the session file
\* nor the tokens, it sends the page to the target exactly when the page
\* is not there, and on a page at the target it gives the verdict of its
\* last call again when the page is as that call saw it.
C16_ValidatorEffects ==
    [][/\ DXValidateStep =>
             /\ UNCHANGED <<url, view, pages, session_file, raw_state_file,
                            tokens, loaded_tokens, context_storage>>
             /\ (last_call.at # "none" /\ last_call.view = view) =>
                    last_call'.ret = last_call.ret
       /\ SMValidateStep =>
             /\ UNCHANGED <<pages, session_file, raw_state_file, tokens,
                            context_storage, loaded_meta>>
             /\ StartsWithUrl(url) =>
                    /\ UNCHANGED <<url, view>>
                    /\ (last_call.at # "none" /\ last_call.view = view) =>
                           last_call'.ret = last_call.ret
             /\ (url' # url \/ view' # view) => ~StartsWithUrl(url)]_vars

\* The validator of SessionManager was called twice: on the blank first
\* page, which it sent to the target, and after the login on a page at the
\* target that looked the same; both calls returned False.
C16_Witness ==
    /\ prog = "sm"
    /\ spc = "cli.close"
    /\ login_ret = "raised"
    /\ ~login_err
    /\ pages = 2
    /\ url = TargetUrl
    /\ last_call.at = "ensure.revalidate"
    /\ ~last_call.ret
    /\ ~valid_seen

\* C17: login has returned True only if a call of the validator within it
\* returned True, and it returns False after the last round of the
\* post-submit loop has failed.
C17_TrueOnlyIfValidated ==
    /\ [](prog = "dx" /\ login_ret = "true" => valid_seen /\ last_call.ret)
    /\ [][(/\ prog = "dx"
           /\ spc = "login.sleep"
           /\ polls = poll_rounds - 1) =>
             (login_ret' = "false" /\ run_ret' = "false")]_vars

\* Every round of the post-submit loop failed and login returned False.
C17_Witness ==
    /\ prog = "dx"
    /\ spc = "run.cleanup"
    /\ login_ret = "false"
    /\ ~login_err
    /\ ~valid_seen
    /\ last_call.at = "login.poll"
    /\ acted.submit = 1

\* C18: without force_login, when the validator succeeds right after the
\* first navigation, login touches no form element, harvests the tokens,
\* calls _save_session and returns True; a save that completes has written
\* the harvested tokens and the time of the save.
C18_ReuseSkipsForm ==
    [][/\ (/\ prog = "dx"
           /\ spc = "login.validate"
           /\ VisibleAt(view, DXIndicators) # {}) =>
             (spc' = "login.validated" /\ acted' = NoForm)
       /\ (prog = "dx" /\ spc = "login.validated") =>
             /\ ~force_login
             /\ last_call.at = "login.validate"
             /\ acted' = NoForm
             /\ login_ret' = "true"
             /\ spc' = "run.wizard"
             /\ lastOp' \in {"save", "save_error"}
             /\ lastOp' = "save" =>
                   /\ persisted'.tokens = tokens'
                   /\ IsWrapped(session_file')
                   /\ session_file'.data.last_verified = now'
                   /\ FileTokens(session_file') = tokens']_vars

\* The stored session validated; login saved it and returned True without
\* having touched the form.
C18_Witness ==
    /\ prog = "dx"
    /\ ~force_login
    /\ spc = "run.wizard"
    /\ login_ret = "true"
    /\ last_call.at = "login.validate"
    /\ last_call.ret
    /\ acted = NoForm
    /\ lastOp = "save"
    /\ context_storage = S1
    /\ tokens # {}

\* C19 as stated: no exception leaves the login sequence.
C19_NeverPropagates == login_ret # "raised"

\* C19 amended: DataExtractor.login turns every error raised inside it
\* into a False return, on which run returns False; the login sequence of
\* SessionManager propagates: an error inside _perform_login and a failed
\* validation after it leave ensure_session as exceptions.
C19_CaughtByExtractorOnly ==
    /\ prog = "dx" =>
          /\ login_ret # "raised"
          /\ login_err => (login_ret = "false" /\ run_ret = "false")
    /\ prog = "sm" =>
          /\ login_err => login_ret = "raised"
          /\ (login_ret = "raised" /\ spc = "cli.done") => run_ret = "raised"

\* The form could not be queried; login caught the error and returned
\* False.
C19_Witness ==
    /\ prog = "dx"
    /\ spc = "run.cleanup"
    /\ login_err
    /\ login_ret = "false"
    /\ run_ret = "false"
    /\ url # "about:blank"

\* The form was gone through without an error and a required field was
\* filled by no candidate and by no fallback.
MissingField ==
    /\ prog = "dx"
    /\ last_call.at = "login.poll"
    /\ (acted.email = 0 \/ acted.password = 0)

IsPrefix(p, q) == Len(p) <= Len(q) /\ p = SubSeq(q, 1, Len(p))

VisibleIn(sels, ans) == {i \in DOMAIN sels : ans[sels[i]] \in {"hit", "stuck"}}
HitsIn(sels, ans) == {i \in DOMAIN sels : ans[sels[i]] = "hit"}
EmailSels == IF prog = "dx" THEN email_selectors ELSE sm_email_selectors
PasswordSels ==
    IF prog = "dx" THEN password_selectors ELSE sm_password_selectors
SubmitSels == IF prog = "dx" THEN button_selectors ELSE submit_selectors
SubmitAnswers == IF prog = "dx" THEN form.button ELSE form.submit

\* C21: in DataExtractor.login, when no email candidate is filled and the
\* page has a visible input, the first visible input is filled (the
\* fallback) and the sequence goes on to the password field and to the
\* submit control; with no visible input nothing is filled and the
\* sequence goes on all the same; the fallback is used only when no
\* candidate was filled.
C21_EmailFallback ==
    (prog = "dx" /\ form # <<>>) =>
        LET none == HitsIn(email_selectors, form.email) = {}
            fallback == Len(email_selectors) + 1
            goes_on ==
                /\ (form.by_type \/ HitsIn(password_selectors, form.password) # {})
                      => acted.password > 0
                /\ (form.buttons >= 1 \/ HitsIn(button_selectors, form.button) # {})
                      => acted.submit > 0
        IN  /\ (none /\ form.inputs >= 1) => (acted.email = fallback /\ goes_on)
            /\ (none /\ form.inputs = 0) => (acted.email = 0 /\ goes_on)
            /\ acted.email = fallback => none
            /\ ~none => acted.email \in 1..Len(email_selectors)

\* The fallback filled the email field and the sequence reached the wait
\* after the submit.
C21_Witness ==
    /\ prog = "dx"
    /\ form # <<>>
    /\ acted.email = Len(email_selectors) + 1
    /\ acted.password > 0
    /\ acted.submit > 0
    /\ spc = "login.poll"

\* C22 as stated: the candidate acted on for the email field is the first
\* candidate that is visible.
C22_FirstVisibleActed ==
    form # <<>> =>
        (VisibleIn(EmailSels, form.email) # {}
            => acted.email = Least(VisibleIn(EmailSels, form.email)))

\* C22: per role the candidates are tried in list order and the one acted
\* on is the first that is visible and whose fill or click succeeds; a
\* candidate whose probe or whose action raises is passed over; no later
\* candidate is acted on, and none is when no candidate succeeds.
C22_FirstSucceedingActed ==
    form # <<>> =>
        /\ IF HitsIn(EmailSels, form.email) = {}
           THEN acted.email \notin 1..Len(EmailSels)
           ELSE acted.email = Least(HitsIn(EmailSels, form.email))
        /\ acted.password \in 1..Len(PasswordSels)
              => acted.password = Least(HitsIn(PasswordSels, form.password))
        /\ acted.submit \in 1..Len(SubmitSels)
              => acted.submit = Least(HitsIn(SubmitSels, SubmitAnswers))
        /\ (acted.email > 0 /\ HitsIn(PasswordSels, form.password) # {})
              => acted.password = Least(HitsIn(PasswordSels, form.password))

\* A first candidate was visible and its fill raised; the second one was
\* acted on although a later one matched as well.
C22_Witness ==
    /\ form # <<>>
    /\ form.email[EmailSels[1]] = "stuck"
    /\ Cardinality(HitsIn(EmailSels, form.email)) > 1
    /\ acted.email = 2
    /\ acted.password = 2
    /\ acted.submit = 2


(***************************************************************************)
(* Release of the browser resources.                                       *)
(***************************************************************************)
\* C23: when run or close has finished, no resource that was acquired is
\* still open, and what was closed was closed in the order page, context,
\* browser, driver.
C23_AllReleased ==
    spc \in {"run.done", "cli.done"} =>
        /\ held = {}
        /\ released = SelectSeq(Resources, LAMBDA r : r \in Range(released))


(***************************************************************************)
(* The order of the steps of DataExtractor.run.                            *)
(***************************************************************************)
\* The positions of run and of login, each with the positions that may
\* follow it.
RunOrder ==
    {<<"run", "login.goto">>, <<"run", "run.cleanup">>,
     <<"login.goto", "login.validate">>, <<"login.goto", "login.form">>,
     <<"login.goto", "run.cleanup">>,
     <<"login.validate", "login.validated">>,
     <<"login.validate", "login.form">>,
     <<"login.validated", "run.wizard">>,
     <<"login.form", "login.poll">>, <<"login.form", "run.cleanup">>,
     <<"login.poll", "login.verified">>, <<"login.poll", "login.sleep">>,
     <<"login.sleep", "login.poll">>, <<"login.sleep", "run.cleanup">>,
     <<"login.verified", "run.wizard">>,
     <<"run.wizard", "run.extract">>, <<"run.wizard", "run.cleanup">>,
     <<"run.extract", "run.cleanup">>, <<"run.cleanup", "run.done">>}

\* C24 as stated: in every run the login form is entered only after a
\* validation of the loaded session has failed.
C24_FormOnlyAfterFailedValidation ==
    [][(prog = "dx" /\ spc # "login.form" /\ spc' = "login.form") =>
          (spc = "login.validate" /\ ~last_call'.ret)]_vars

\* C24: the steps of run occur in the order load, validate, form, persist,
\* wizard, extraction, final persistence; without force_login the session
\* is loaded and validated first and the form is entered only after the
\* validation failed, with force_login neither happens and the form is
\* entered right after the navigation; the wizard is entered only after
\* login called _save_session, and wizard and extraction only after a
\* validator call of this run returned True.
C24_RunOrder ==
    /\ [](prog = "dx" /\ spc \in {"run.wizard", "run.extract"} =>
             (login_ret = "true" /\ valid_seen /\ last_call.ret))
    /\ [][prog = "dx" =>
          /\ spc' # spc => <<spc, spc'>> \in RunOrder
          /\ (spc = "run" /\ spc' = "login.goto") =>
                IF force_login
                THEN UNCHANGED <<storage_state, context_storage,
                                 loaded_session_meta>>
                ELSE storage_state' =
                        ParseSessionFile(session_file, raw_state_file,
                            loaded_session_meta, loaded_tokens, now).ret
          /\ (spc # "login.form" /\ spc' = "login.form") =>
                \/ ~force_login /\ spc = "login.validate" /\ ~last_call'.ret
                \/ force_login /\ spc = "login.goto"
          /\ spc' = "login.validate" => ~force_login
          /\ (spc # "run.wizard" /\ spc' = "run.wizard") =>
                lastOp' \in {"save", "save_error"}
          /\ (spc = "run.extract" /\ lastOp' # "none") => run_ret' = "true"]_vars

\* A run without force_login whose first validation failed went through
\* the form, the wizard and the extraction and saved the session at the
\* end.
C24_Witness ==
    /\ prog = "dx"
    /\ ~force_login
    /\ spc = "run.cleanup"
    /\ run_ret = "true"
    /\ acted.email > 0
    /\ last_call.at = "login.poll"
    /\ lastOp = "save"


(***************************************************************************)
(* The first bundle written after a login without a session file.          *)
(***************************************************************************)
\* C25: when there is no session file and no raw state file, the bundle
\* that the save of a successful login writes has a created_at equal to
\* its last_verified, and it carries the tokens if any were harvested.
C25_FirstBundle ==
    [][(/\ SaveStep
        /\ prog = "dx"
        /\ spc = "login"
        /\ session_file = NoFile
        /\ raw_state_file = NoFile) =>
          /\ IsWrapped(session_file')
          /\ session_file'.data.created_at = session_file'.data.last_verified
          /\ persisted'.tokens # {} => "tokens" \in DOMAIN session_file'.data
      ]_vars


(***************************************************************************)
(* A stale session.                                                        *)
(***************************************************************************)
\* The session file holds a session whose age exceeds the maximum age.
StaleStored ==
    /\ IsWrapped(session_file)
    /\ HasAge(session_file)
    /\ HasData(session_file.data.storage_state)
    /\ now - StoredLastVerified(session_file) > StoredMaxAge(session_file)
FirstValidation ==
    \/ DXValidateStep /\ spc = "login.validate"
    \/ SMValidateStep /\ spc = "ensure.validate"

\* C26 as stated: the first validation of a run that found a stale session
\* is made in a context created with that session.
C26_StaleValidatedAgainst ==
    [][(FirstValidation /\ StaleStored) =>
          context_storage = session_file.data.storage_state]_vars

\* C26: with a stale session stored and force_login off, DataExtractor
\* creates the context with the stale session and validates against it;
\* SessionManager does not load it and validates in a context without it;
\* in both, a failed validation leads to the login sequence, and a save
\* that completes after the login has succeeded replaces the file by a
\* bundle verified at the time of the save.
C26_StaleSession ==
    [][StaleStored =>
          /\ (prog = "dx" /\ spc = "run" /\ spc' = "login.goto"
                  /\ ~force_login) =>
                context_storage' = session_file.data.storage_state
          /\ (prog = "sm" /\ spc = "ensure" /\ spc' = "ensure.validate") =>
                /\ loaded_storage_state' = NoState
                /\ loaded_meta' = NoMeta
          /\ (prog = "dx" /\ spc = "login.goto" /\ ~force_login
                  /\ spc' # "run.cleanup") => spc' = "login.validate"
          /\ (FirstValidation /\ prog = "dx") =>
                /\ context_storage = session_file.data.storage_state
                /\ last_call'.at = "login.validate"
                /\ spc' = IF last_call'.ret THEN "login.validated"
                          ELSE "login.form"
          /\ (FirstValidation /\ prog = "sm") =>
                /\ context_storage = NoState
                /\ last_call'.at = "ensure.validate"
                /\ spc' = IF last_call'.ret THEN "ensure.persist"
                          ELSE "ensure.login"
          /\ (prog = "dx" /\ spc = "login.verified" /\ lastOp' = "save") =>
                /\ IsWrapped(session_file')
                /\ session_file'.data.last_verified = now'
                /\ session_file' # session_file
          /\ (prog = "sm" /\ spc = "ensure.persist" /\ lastOp' = "save") =>
                /\ IsBundle(session_file')
                /\ session_file'.data.meta.last_verified = now'
                /\ session_file'.data.meta.created_at = now
                /\ session_file' # session_file]_vars

\* SessionManager found a stale bundle, validated without it, logged in
\* and replaced the file by a new bundle.
C26_Witness ==
    /\ prog = "sm"
    /\ ~force_login
    /\ spc = "cli.close"
    /\ login_ret = "true"
    /\ last_call.at = "ensure.revalidate"
    /\ context_storage = NoState
    /\ lastOp = "save"
    /\ IsBundle(session_file)
    /\ session_file.data.meta.created_at = now
    /\ acted.email > 0


(***************************************************************************)
(* SessionManager.ensure_session.                                          *)
(***************************************************************************)
\* C30: ensure_session has returned only after a call of
\* _validate_logged_in returned True, the first one or the one after
\* _perform_login; when the call after the login returns False it raises;
\* every return is preceded by a call of _persist.
C30_EnsureSession ==
    /\ [](prog = "sm" /\ login_ret = "true" =>
             /\ valid_seen
             /\ last_call.ret
             /\ last_call.at \in {"ensure.validate", "ensure.revalidate"})
    /\ [][prog = "sm" =>
          /\ (SMValidateStep /\ spc = "ensure.revalidate" /\ ~last_call'.ret)
                => (login_ret' = "raised" /\ spc' = "cli.close")
          /\ (spc # "ensure.persist" /\ spc' = "ensure.persist")
                => (SMValidateStep /\ last_call'.ret)
          /\ (spc # "ensure.login" /\ spc' = "ensure.login")
                => (spc = "ensure.validate" /\ ~last_call'.ret)
          /\ (login_ret # "true" /\ login_ret' = "true")
                => (spc = "ensure.persist"
                      /\ lastOp' \in {"save", "save_error"})]_vars

\* The first validation succeeded; ensure_session persisted the session
\* and returned without a login.
C30_Witness ==
    /\ prog = "sm"
    /\ login_ret = "true"
    /\ spc = "cli.close"
    /\ last_call.at = "ensure.validate"
    /\ last_call.ret
    /\ pages = 1
    /\ acted = NoForm
    /\ lastOp = "save"


(***************************************************************************)
(* Errors of the structural extraction pass.                               *)
(***************************************************************************)
\* The list starts with the first of the rows substituted at lines
\* 984-1001.
SubstitutedFirst(rows) == rows # <<>> /\ rows[1] = SyntheticRows[1]

\* C27: the first extraction pass never ends the method: it leaves a list
\* that is not empty, either rows taken from the page or exactly the two
\* marked synthetic rows; once these were substituted the method goes on,
\* the list keeps starting with a marked synthetic row, and the list
\* returned is not empty, starts with that row and has a Name in every
\* row; an error before the first pass returns the one marked error row.
C27_SyntheticOnError ==
    /\ [][/\ xpc = "initial" =>
               /\ xpc' = "detect"
               /\ all_products' # <<>>
               /\ \/ all_products' = SyntheticRows
                  \/ \A i \in DOMAIN all_products' :
                        all_products'[i] \notin Range(SyntheticRows)
          /\ (xpc # "initial" /\ SubstitutedFirst(all_products)) =>
               /\ SubstitutedFirst(all_products')
               /\ xpc' = "done" => SubstitutedFirst(result')
          /\ (xpc = "start" /\ xpc' = "done") => result' = ErrorRows]_vars
    /\ [](xpc = "done" =>
             /\ result # <<>>
             /\ \A i \in DOMAIN result : "Name" \in DOMAIN result[i]
             /\ SubstitutedFirst(result) => IsMarked(result[1]))

\* The first pass raised and the method returned the two synthetic rows
\* after having tried to paginate.
C27_Witness ==
    /\ xpc = "done"
    /\ result = SyntheticRows
    /\ pagination_attempts > 0


(***************************************************************************)
(* The token harvester and the storage poll.                               *)
(***************************************************************************)
StorageMarkers == {"token", "auth", "jwt", "bearer", "session"}
GlobalMarkers == {"token", "auth", "jwt"}
Marked(k, markers) == MarkersIn(k) \cap markers # {}

C29_PollTerminates ==
    /\ <>(hpc \in {"harvest", "harvested"})
    /\ [](loop_time <= deadline + 1)
    /\ [][/\ hpc = "poll.evaluate" =>
               /\ client_storage'.ls = Raised =>
                     (captured' = captured /\ hpc' = "poll.sleep")
               /\ client_storage'.ls # Raised =>
                     /\ captured' = [local |-> client_storage'.ls,
                                     session |-> client_storage'.ss]
                     /\ hpc' = IF \E k \in Names(client_storage'.ls)
                                           \cup Names(client_storage'.ss) :
                                      Marked(k, patterns)
                               THEN "harvest" ELSE "poll.sleep"
          /\ hpc = "poll.test" =>
               /\ captured' = captured
               /\ hpc' = IF loop_time >= deadline THEN "harvest"
                         ELSE "poll.evaluate"
          /\ hpc = "poll.sleep" =>
               /\ captured' = captured
               /\ loop_time' > loop_time
               /\ hpc' = "poll.test"]_vars

\* A snapshot without a token was taken, the next evaluation raised, and
\* the poll returned that snapshot at the deadline.
C29_Witness ==
    /\ hpc = "harvest"
    /\ loop_time >= deadline
    /\ client_storage.ls = Raised
    /\ captured = [local |-> {<<"theme", "dark-theme-1">>}, session |-> {}]

(***************************************************************************)
(* Properties of the advance strategies and of the indicator.              *)
(***************************************************************************)
\* C33: within one iteration of the pagination loop the strategies are tried
\* in the order next control, load-more control, simulated scroll, and the
\* loop goes on to the following strategy exactly when the one just tried
\* added no new row.
C33_LaterIffEarlierFailed ==
    [][/\ xpc = "next" =>
            /\ xpc' \in {"more", "head"}
            /\ xpc' = "more" <=> Len(all_products') = Len(all_products)
       /\ xpc = "more" =>
            /\ xpc' \in {"scroll", "head"}
            /\ xpc' = "scroll" <=> Len(all_products') = Len(all_products)]_vars

\* C34: the loop over the next-selectors never clicks a candidate that
\* carries the disabled attribute or aria-disabled="true"; it passes over
\* such a candidate and clicks the first later candidate that is visible and
\* enabled, and when there is none it goes on to the load-more strategy.
Disabled(cands) == {j \in 1..Len(cands) : cands[j] \in {"disabled", "aria"}}

Clickable(cands) == {j \in 1..Len(cands) : cands[j] = "enabled"}

C34_DisabledNeverClicked ==
    [][xpc = "next" =>
         /\ seen'.step = "next"
         /\ seen'.clicked \notin Disabled(seen'.cands)
         /\ Clickable(seen'.cands) # {}
              => seen'.clicked = Least(Clickable(seen'.cands))
         /\ Clickable(seen'.cands) = {}
              => seen'.clicked = 0 /\ xpc' = "more" /\ pos' = pos]_vars

C34_Witness ==
    /\ seen.step = "next"
    /\ Disabled(seen.cands) # {}
    /\ seen.clicked > Least(Disabled(seen.cands))
    /\ xpc = "head"

\* C35: total_expected is set by the first "Showing X of Y products" text
\* that is found, to its Y, and once set it keeps that value for the rest of
\* the run, also when a later text shows another total.
C35_TotalSetOnce ==
    [][/\ total_expected # None => total_expected' = total_expected
       /\ total_expected = None /\ total_expected' # None =>
            /\ seen'.step \in {"detect", "head"}
            /\ seen'.ind.match
            /\ total_expected' = seen'.ind.total
       /\ total_expected = None /\ seen' # seen /\ seen'.ind.match =>
            total_expected' = seen'.ind.total]_vars

C35_Witness ==
    /\ seen.step = "head"
    /\ seen.ind.match
    /\ total_expected # None
    /\ seen.ind.total # total_expected

\* The loop head read an indicator whose shown count has reached its total.
ShownAll(s) == s.step = "head" /\ s.ind.match /\ s.ind.shown >= s.ind.total

\* C38 as stated: when the indicator read at the head of an iteration shows
\* shown >= total, the loop stops there without trying an advance strategy
\* and the rows collected are at least total in number.
C38_StopsWithAll ==
    [][xpc = "head" /\ ShownAll(seen') =>
         /\ xpc' = "trim"
         /\ Len(all_products') >= seen'.ind.total]_vars

\* C38: when the indicator read at the head of an iteration shows
\* shown >= total, the loop re-extracts the current view once; if that pass
\* returns, the rows of the view whose identity key is new are appended and
\* the loop stops without trying an advance strategy, whatever the number
\* of rows collected; if it raises, nothing is appended and the loop goes on
\* to its other stop tests and, failing those, to the advance strategies.
C38_StopsAfterReextract ==
    [][xpc = "head" /\ ShownAll(seen') =>
         IF seen'.view.ok
         THEN /\ xpc' = "trim"
              /\ stopWhy' = "shown"
              /\ pos' = pos
              /\ IsPrefix(all_products, all_products')
              /\ collected_keys' = collected_keys \cup Keys(seen'.view.first)
              /\ Len(all_products') - Len(all_products)
                     = Cardinality(Keys(seen'.view.first) \ collected_keys)
         ELSE /\ all_products' = all_products
              /\ xpc' \in {"trim", "next"}
              /\ stopWhy' # "shown"]_vars

\* The loop stopped on the indicator with fewer rows than its total.
C38_Witness ==
    /\ xpc = "trim"
    /\ stopWhy = "shown"
    /\ ShownAll(seen)
    /\ seen.view.ok
    /\ seen.view.first # <<>>
    /\ Len(all_products) < seen.ind.total

\* What a re-extraction pass over view v would collect into empty lists.
Reextracted(v) == Collect(CurrentPageRows(v), <<>>, {})

\* The initial pass has just read a view without raising.
InitialPassOn(s) == s.step = "initial" /\ s.view.ok

\* C39: on any view the initial extraction collects the rows that
\* a re-extraction pass over the same view collects, under the same
\* identity keys.
C39_SamePass ==
    [][xpc = "initial" /\ InitialPassOn(seen') =>
         /\ all_products' = Reextracted(seen'.view).prods
         /\ collected_keys' = Reextracted(seen'.view).keys]_vars

\* C40: when the first extraction pass raised and the synthetic rows were
\* substituted, every row of the list collected and of the list returned is
\* a marked synthetic row: no row of a later pass is added to them.
C40_OnlySynthetic ==
    /\ SubstitutedFirst(all_products) =>
         \A i \in DOMAIN all_products : IsMarked(all_products[i])
    /\ (xpc = "done" /\ SubstitutedFirst(result)) =>
         \A i \in DOMAIN result : IsMarked(result[i])

(***************************************************************************)
(* Properties of the stored session at start-up and of run's result.       *)
(***************************************************************************)
\* C31: when a run has loaded a stored session that is still valid, the
\* browsing context in which the first validation is made was created with
\* the storage state of that session.
C31_StoredStateApplied ==
    /\ (prog = "sm" /\ spc = "ensure.validate"
            /\ loaded_storage_state # NoState)
         => context_storage = loaded_storage_state
    /\ (prog = "dx" /\ spc \in {"login.goto", "login.validate"}
            /\ HasData(storage_state))
         => context_storage = storage_state

\* Nothing of a stored session has been taken up by the run.
NothingLoaded ==
    /\ context_storage = NoState
    /\ storage_state = NoState
    /\ loaded_tokens = {}
    /\ loaded_session_meta = NoMeta
    /\ loaded_storage_state = NoState
    /\ loaded_meta = NoMeta

\* C36 as stated: with force-login set the run takes nothing from the
\* session file (no storage state for the context, no tokens to inject, no
\* metadata) and does not call the validator before the credential form.
C36_ForceLogin ==
    force_login =>
        /\ NothingLoaded
        /\ spc \notin {"login.validate", "ensure.validate"}

\* C36: with force-login set the run takes nothing from the session file;
\* DataExtractor goes from the navigation to the credential form without a
\* validator call, SessionManager calls the validator once on the context
\* that carries nothing stored and goes to the form when it returns False.
C36_ForceLoginByProgram ==
    /\ [](force_login =>
             /\ NothingLoaded
             /\ prog = "dx" => spc # "login.validate")
    /\ [][force_login =>
             /\ (prog = "dx" /\ spc = "login.goto")
                   => spc' \in {"login.form", "run.cleanup"}
             /\ (prog = "sm" /\ spc = "ensure.validate")
                   => /\ last_call'.at = "ensure.validate"
                      /\ spc' = IF last_call'.ret THEN "ensure.persist"
                                ELSE "ensure.login"]_vars

\* A forced DataExtractor run stands at the form with a session file on disk
\* that it has not read and without a validator call behind it.
C36_Witness ==
    /\ force_login
    /\ prog = "dx"
    /\ spc = "login.form"
    /\ session_file = DictFile(Wrapped0)
    /\ last_call.at = "none"
    /\ ~valid_seen

\* The session file or its raw companion is written, truncated or replaced.
FileTouched ==
    session_file' # session_file \/ raw_state_file' # raw_state_file

\* C37: the session file is touched only after a validator call has
\* returned True, the last one before the write, and never by a login that
\* ends without success: a login that returns False, or an ensure_session
\* that raises, leaves the file as it found it.
C37_FailedLoginKeepsFile ==
    [][/\ FileTouched =>
            /\ valid_seen
            /\ last_call.ret
            /\ login_ret' = "true"
       /\ (login_ret = "pending" /\ login_ret' \in {"false", "raised"}) =>
            ~FileTouched]_vars

\* A login at the form failed with a session file on disk.
C37_Witness ==
    /\ login_ret \in {"false", "raised"}
    /\ form # <<>>
    /\ session_file.kind = "dict"
    /\ persisted = NotPersisted

\* C32: run returns True only if login returned True, navigate_wizard
\* returned True, extract_table_data returned a list that is not empty and
\* save_data_to_json wrote the data file; once these four hold run returns
\* True whether the final poll, harvest and save of the session ran through,
\* raised, or left the session file unwritten.
C32_RunTrueOnlyIf ==
    /\ []((prog = "dx" /\ run_ret = "true") =>
             /\ login_ret = "true"
             /\ ran.wizard = "true"
             /\ ran.products = "some"
             /\ ran.written)
    /\ [][(prog = "dx" /\ spc = "run.extract") =>
             /\ login_ret = "true" /\ ran.wizard = "true"
             /\ (ran'.products = "some" /\ ran'.written)
                   => run_ret' = "true"
             /\ ~(ran'.products = "some" /\ ran'.written)
                   => run_ret' = "false"]_vars

\* run returned True although the final enrichment of the session raised.
C32_Witness ==
    /\ prog = "dx"
    /\ spc = "run.done"
    /\ run_ret = "true"
    /\ ran.final = "raised"

====
